---- MODULE Spec2Model ----
(***************************************************************************)
(* Deployment orchestration pipeline of the multi-cloud manager: the       *)
(* Celery task deploy_infrastructure, the provider factory, the Terraform  *)
(* provider's deploy, the error classifier and the ANSI stripper, with the *)
(* accepting endpoint and the task queue's redelivery as their environment.*)
(*                                                                         *)
(* Texts are sequences of one-character strings; "ESC" stands for the      *)
(* escape character \x1b and "U+25xx" for a box-drawing character.         *)
(***************************************************************************)
EXTENDS Integers, Sequences, FiniteSets, TLC

----------------------------------------------------------------------------
(* Characters and text primitives (Python str / re semantics)              *)

ESC == "ESC"

Digits == {"0", "1", "2", "3", "4", "5", "6", "7", "8", "9"}

UpperCase == <<"A", "B", "C", "D", "E", "F", "G", "H", "I", "J", "K", "L", "M",
               "N", "O", "P", "Q", "R", "S", "T", "U", "V", "W", "X", "Y", "Z">>

LowerCase == <<"a", "b", "c", "d", "e", "f", "g", "h", "i", "j", "k", "l", "m",
               "n", "o", "p", "q", "r", "s", "t", "u", "v", "w", "x", "y", "z">>

Letters == {UpperCase[i] : i \in DOMAIN UpperCase} \cup {LowerCase[i] : i \in DOMAIN LowerCase}

\* \s of the re module and the characters str.strip() removes
Whitespace == {" ", "\t", "\n", "\r", "\f"}

\* the character class of the second re.sub of strip_ansi_codes
BoxChars == {"U+2502", "U+2575", "U+2577", "U+256D", "U+256E", "U+2570", "U+256F",
             "U+250C", "U+2510", "U+2514", "U+2518", "U+251C", "U+2524", "U+252C",
             "U+2534", "U+253C", "U+2500"}

LowerOf ==
  [c \in {UpperCase[i] : i \in DOMAIN UpperCase} |->
     LowerCase[CHOOSE i \in DOMAIN UpperCase : UpperCase[i] = c]]

\* str.lower() on one character
Lower(c) == IF c \in DOMAIN LowerOf THEN LowerOf[c] ELSE c

ToLower(t) == [i \in 1..Len(t) |-> Lower(t[i])]

Min(a, b) == IF a < b THEN a ELSE b

\* t[:n]
Take(t, n) == SubSeq(t, 1, Min(n, Len(t)))

\* t[i:] for a 1-based i
From(t, i) == SubSeq(t, i, Len(t))

StartsWithAt(t, s, i) == i + Len(s) - 1 <= Len(t) /\ SubSeq(t, i, i + Len(s) - 1) = s

StartsWith(t, s) == StartsWithAt(t, s, 1)

\* s in t
Contains(t, s) == \E i \in 1..(Len(t) + 1) : StartsWithAt(t, s, i)

\* smallest element of a non-empty set of integers
Least(S) == CHOOSE x \in S : \A y \in S : x <= y

\* str.strip()
Strip(t) ==
  IF \A i \in 1..Len(t) : t[i] \in Whitespace THEN <<>>
  ELSE SubSeq(t,
              CHOOSE i \in 1..Len(t) :
                t[i] \notin Whitespace /\ \A j \in 1..(i - 1) : t[j] \in Whitespace,
              CHOOSE i \in 1..Len(t) :
                t[i] \notin Whitespace /\ \A j \in (i + 1)..Len(t) : t[j] \in Whitespace)

\* str.split('\n'): the lines of t, at least one
Split(t) ==
  LET nl == {i \in 1..Len(t) : t[i] = "\n"}
      Nth(k) == CHOOSE i \in nl : Cardinality({j \in nl : j < i}) = k - 1
  IN  [k \in 1..(Cardinality(nl) + 1) |->
         SubSeq(t, IF k = 1 THEN 1 ELSE Nth(k - 1) + 1,
                   IF k = Cardinality(nl) + 1 THEN Len(t) ELSE Nth(k) - 1)]

\* the mark of a character a substitution removes
Gone == ""

IsKept(c) == c # Gone

\* str.replace(old, ''), for an old that cannot overlap itself
Remove(t, old) ==
  SelectSeq([p \in 1..Len(t) |->
               IF \E i \in (p - Len(old) + 1)..p : i >= 1 /\ StartsWithAt(t, old, i)
                 THEN Gone ELSE t[p]],
            IsKept)

----------------------------------------------------------------------------
(* strip_ansi_codes                                                        *)

\* end of the longest run of characters of cs starting at i (i - 1 when empty)
RunEnd(t, cs, i) ==
  CHOOSE e \in (i - 1)..Len(t) :
    (\A j \in i..e : t[j] \in cs) /\ (e = Len(t) \/ t[e + 1] \notin cs)

\* start of the longest run of characters of cs ending at i
RunStart(t, cs, i) ==
  CHOOSE s \in 1..(i + 1) :
    (\A j \in s..i : t[j] \in cs) /\ (s = 1 \/ t[s - 1] \notin cs)

\* the index where a match of \x1b\[[0-9;]*[a-zA-Z]|\x1b\[[0-9;]*m that starts at i
\* ends, 0 when none starts there
AnsiMatchEnd(t, i) ==
  IF i + 1 <= Len(t) /\ t[i] = ESC /\ t[i + 1] = "["
    THEN LET k == RunEnd(t, Digits \cup {";"}, i + 2) + 1
         IN  IF k <= Len(t) /\ (t[k] \in Letters \/ t[k] = "m") THEN k ELSE 0
    ELSE 0

\* ansi_pattern.sub('', text): a match holds one escape character, its first, so
\* every place where the pattern matches is a match of the left-to-right scan
RemoveAnsi(t) ==
  LET starts == {i \in 1..Len(t) : t[i] = ESC /\ AnsiMatchEnd(t, i) # 0}
  IN  SelectSeq([p \in 1..Len(t) |->
                   IF \E i \in starts : i <= p /\ p <= AnsiMatchEnd(t, i) THEN Gone ELSE t[p]],
                IsKept)

NotBox(c) == c \notin BoxChars

\* re.sub(r'[box-drawing]', '', text)
RemoveBox(t) == SelectSeq(t, NotBox)

\* re.sub(r'[ \t]+', ' ', text): every longest run of blanks becomes one space
CollapseSpaces(t) ==
  SelectSeq([p \in 1..Len(t) |->
               IF t[p] \notin {" ", "\t"} THEN t[p]
               ELSE IF p > 1 /\ t[p - 1] \in {" ", "\t"} THEN Gone ELSE " "],
            IsKept)

\* re.sub(r'\n\s*\n', '\n', text): in every longest run of whitespace with two or more
\* newlines the scan finds one match, from the first newline to the last (\s* is
\* greedy), and leaves the first newline in its place
CollapseBlankLines(t) ==
  SelectSeq([p \in 1..Len(t) |->
               IF t[p] \notin Whitespace THEN t[p]
               ELSE IF /\ \E j \in RunStart(t, Whitespace, p)..(p - 1) : t[j] = "\n"
                       /\ \E j \in p..RunEnd(t, Whitespace, p) : t[j] = "\n"
                 THEN Gone ELSE t[p]],
            IsKept)

strip_ansi_codes(text) ==
  IF text = <<>> THEN text
  ELSE Strip(CollapseBlankLines(CollapseSpaces(RemoveBox(RemoveAnsi(text)))))

----------------------------------------------------------------------------
(* Error classifier: parse_terraform_error                                 *)

\* one regular-expression item: a literal string ("lit"), or a character test and how
\* often it repeats ("1" once, "*" zero or more, "+" one or more); any = the dot
\* under re.DOTALL
Dot(q) == [any |-> TRUE, neg |-> FALSE, cs |-> {}, q |-> q, s |-> <<>>]

In(cs, q) == [any |-> FALSE, neg |-> FALSE, cs |-> cs, q |-> q, s |-> <<>>]

NotIn(cs, q) == [any |-> FALSE, neg |-> TRUE, cs |-> cs, q |-> q, s |-> <<>>]

\* a literal string of the pattern, kept in lower case
Lit(s) == <<[any |-> FALSE, neg |-> FALSE, cs |-> {}, q |-> "lit", s |-> ToLower(s)]>>

\* one character against one item, under re.IGNORECASE
ItemMatches(a, c) ==
  \/ a.any
  \/ ~a.any /\ (a.neg <=> ~(\E x \in a.cs : Lower(x) = Lower(c)))

\* the positions where a match of item a can end (the next position to read), for a
\* match that started reading at a position of P; low is the text in lower case
Step(a, low, P) ==
  CASE a.q = "lit" ->
         {p + Len(a.s) : p \in {x \in P : StartsWithAt(low, a.s, x)}}
    [] a.q = "1" ->
         {p + 1 : p \in {x \in P : x <= Len(low) /\ ItemMatches(a, low[x])}}
    [] a.q = "*" ->
         {e \in 1..(Len(low) + 1) :
            \E p \in P : p <= e /\ \A j \in p..(e - 1) : ItemMatches(a, low[j])}
    [] a.q = "+" ->
         {e \in 1..(Len(low) + 1) :
            \E p \in P : p < e /\ \A j \in p..(e - 1) : ItemMatches(a, low[j])}

\* the positions where a match of the items k.. of one alternative can end
RECURSIVE MatchEnds(_, _, _, _)
MatchEnds(alt, k, low, P) ==
  IF k > Len(alt) \/ P = {} THEN P ELSE MatchEnds(alt, k + 1, low, Step(alt[k], low, P))

\* whether some alternative of the pattern matches somewhere in low
SearchLower(pattern, low) ==
  \E b \in DOMAIN pattern : MatchEnds(pattern[b], 1, low, 1..(Len(low) + 1)) # {}

\* re.search(pattern, text, re.IGNORECASE | re.DOTALL) is not None
Search(pattern, text) == SearchLower(pattern, ToLower(text))
TypeBicep == <<"b", "i", "c", "e", "p">>

TypeArm == <<"a", "r", "m">>

TypeAzure == <<"a", "z", "u", "r", "e">>

TypeTerraformAzure ==
  <<"t", "e", "r", "r", "a", "f", "o", "r", "m", "-", "a", "z", "u", "r", "e">>

TypeTerraformGcp == <<"t", "e", "r", "r", "a", "f", "o", "r", "m", "-", "g", "c", "p">>

TypeTerraformAws == <<"t", "e", "r", "r", "a", "f", "o", "r", "m", "-", "a", "w", "s">>

TypeGcp == <<"g", "c", "p">>

\* ProviderType.TERRAFORM.value
TypeTerraform == <<"t", "e", "r", "r", "a", "f", "o", "r", "m">>

\* a tag registered with register_provider
TypeCustom == <<"c", "u", "s", "t", "o", "m", "-", "p", "r", "o", "v", "i", "d", "e", "r">>

ExcDeploymentError ==
  <<"D", "e", "p", "l", "o", "y", "m", "e", "n", "t", "E", "r", "r", "o", "r">>

ExcProviderConfigurationError ==
  <<"P", "r", "o", "v", "i", "d", "e", "r", "C", "o", "n", "f", "i", "g", "u", "r", "a", "t",
    "i", "o", "n", "E", "r", "r", "o", "r">>

\* the result backend refusing update_state
ExcConnectionError ==
  <<"C", "o", "n", "n", "e", "c", "t", "i", "o", "n", "E", "r", "r", "o", "r">>

ExcRuntimeError == <<"R", "u", "n", "t", "i", "m", "e", "E", "r", "r", "o", "r">>

ExcMultiCloudException ==
  <<"M", "u", "l", "t", "i", "C", "l", "o", "u", "d", "E", "x", "c", "e", "p", "t", "i", "o",
    "n">>

TxtSolutionColon == <<"S", "o", "l", "u", "t", "i", "o", "n", ":", " ">>

ExcFileNotFoundError ==
  <<"F", "i", "l", "e", "N", "o", "t", "F", "o", "u", "n", "d", "E", "r", "r", "o", "r">>

TxtUnsupported1 ==
  <<"U", "n", "s", "u", "p", "p", "o", "r", "t", "e", "d", " ", "p", "r", "o", "v", "i", "d",
    "e", "r", " ", "t", "y", "p", "e", ":", " ", "'">>

TxtUnsupported2 ==
  <<"'", ".", " ", "A", "v", "a", "i", "l", "a", "b", "l", "e", " ", "p", "r", "o", "v", "i",
    "d", "e", "r", "s", ":", " ">>

TxtCommaSpace == <<",", " ">>

TxtFailedInit1 ==
  <<"F", "a", "i", "l", "e", "d", " ", "t", "o", " ", "i", "n", "i", "t", "i", "a", "l", "i",
    "z", "e", " ">>

TxtFailedInit2 == <<" ", "p", "r", "o", "v", "i", "d", "e", "r", ":", " ">>

TxtNotInstalled ==
  <<"T", "e", "r", "r", "a", "f", "o", "r", "m", " ", "i", "s", " ", "n", "o", "t", " ", "i",
    "n", "s", "t", "a", "l", "l", "e", "d", " ", "o", "r", " ", "n", "o", "t", " ", "i", "n",
    " ", "P", "A", "T", "H", ".", " ", "P", "l", "e", "a", "s", "e", " ", "i", "n", "s", "t",
    "a", "l", "l", " ", "T", "e", "r", "r", "a", "f", "o", "r", "m", ":", " ", "h", "t", "t",
    "p", "s", ":", "/", "/", "w", "w", "w", ".", "t", "e", "r", "r", "a", "f", "o", "r", "m",
    ".", "i", "o", "/", "d", "o", "w", "n", "l", "o", "a", "d", "s">>

TxtTimedOut ==
  <<"T", "e", "r", "r", "a", "f", "o", "r", "m", " ", "c", "o", "m", "m", "a", "n", "d", " ",
    "t", "i", "m", "e", "d", " ", "o", "u", "t", " ", "a", "f", "t", "e", "r", " ", "1", "0",
    " ", "m", "i", "n", "u", "t", "e", "s">>

TxtFailedExecute ==
  <<"F", "a", "i", "l", "e", "d", " ", "t", "o", " ", "e", "x", "e", "c", "u", "t", "e", " ",
    "T", "e", "r", "r", "a", "f", "o", "r", "m", " ", "c", "o", "m", "m", "a", "n", "d", ":",
    " ">>

TxtInitFailed ==
  <<"T", "e", "r", "r", "a", "f", "o", "r", "m", " ", "i", "n", "i", "t", " ", "f", "a", "i",
    "l", "e", "d", ":", " ">>

TxtPlanFailed ==
  <<"T", "e", "r", "r", "a", "f", "o", "r", "m", " ", "p", "l", "a", "n", " ", "f", "a", "i",
    "l", "e", "d", ":", " ">>

TxtApplyFailed ==
  <<"T", "e", "r", "r", "a", "f", "o", "r", "m", " ", "a", "p", "p", "l", "y", " ", "f", "a",
    "i", "l", "e", "d", ":", " ">>

TxtDeployFailed ==
  <<"T", "e", "r", "r", "a", "f", "o", "r", "m", " ", "d", "e", "p", "l", "o", "y", "m", "e",
    "n", "t", " ", "f", "a", "i", "l", "e", "d", ":", " ">>

TxtBar == <<" ", "|", " ">>

TxtSolution == <<" ", "|", " ", "S", "o", "l", "u", "t", "i", "o", "n", ":", " ">>

TxtColonSpace == <<":", " ">>

TxtNewline == <<"\n">>

TxtFullTraceback ==
  <<"\n", "-", "-", "-", " ", "F", "u", "l", "l", " ", "T", "r", "a", "c", "e", "b", "a", "c",
    "k", " ", "-", "-", "-", "\n">>

\* first line of traceback.format_exc(); the frame lines are left out
TxtTraceback ==
  <<"T", "r", "a", "c", "e", "b", "a", "c", "k", " ", "(", "m", "o", "s", "t", " ", "r", "e",
    "c", "e", "n", "t", " ", "c", "a", "l", "l", " ", "l", "a", "s", "t", ")", ":", "\n">>

MsgStarting ==
  <<"S", "t", "a", "r", "t", "i", "n", "g", " ", "d", "e", "p", "l", "o", "y", "m", "e", "n",
    "t", " ">>

MsgInitializing1 == <<"I", "n", "i", "t", "i", "a", "l", "i", "z", "i", "n", "g", " ">>

MsgInitializing2 == <<" ", "p", "r", "o", "v", "i", "d", "e", "r">>

MsgProviderInitialized ==
  <<"P", "r", "o", "v", "i", "d", "e", "r", " ", "i", "n", "i", "t", "i", "a", "l", "i", "z",
    "e", "d", " ", "s", "u", "c", "c", "e", "s", "s", "f", "u", "l", "l", "y">>

MsgStartingTo ==
  <<"S", "t", "a", "r", "t", "i", "n", "g", " ", "d", "e", "p", "l", "o", "y", "m", "e", "n",
    "t", " ", "t", "o", " ">>

MsgResourceGroup ==
  <<"R", "e", "s", "o", "u", "r", "c", "e", " ", "g", "r", "o", "u", "p", ":", " ">>

MsgTemplate == <<"T", "e", "m", "p", "l", "a", "t", "e", ":", " ">>

MsgPhase1 ==
  <<"=", "=", "=", " ", "P", "H", "A", "S", "E", " ", "1", ":", " ", "V", "A", "L", "I", "D",
    "A", "T", "I", "O", "N", " ", "=", "=", "=">>

MsgValidating ==
  <<"V", "a", "l", "i", "d", "a", "t", "i", "n", "g", " ", "t", "e", "m", "p", "l", "a", "t",
    "e", " ", "s", "y", "n", "t", "a", "x", " ", "a", "n", "d", " ", "p", "a", "r", "a", "m",
    "e", "t", "e", "r", "s", ".", ".", ".">>

MsgPhase2 ==
  <<"=", "=", "=", " ", "P", "H", "A", "S", "E", " ", "2", ":", " ", "P", "L", "A", "N", "N",
    "I", "N", "G", " ", "=", "=", "=">>

MsgPlanning ==
  <<"C", "a", "l", "c", "u", "l", "a", "t", "i", "n", "g", " ", "i", "n", "f", "r", "a", "s",
    "t", "r", "u", "c", "t", "u", "r", "e", " ", "c", "h", "a", "n", "g", "e", "s", ".", ".",
    ".">>

MsgPhase3 ==
  <<"=", "=", "=", " ", "P", "H", "A", "S", "E", " ", "3", ":", " ", "A", "P", "P", "L", "Y",
    "I", "N", "G", " ", "=", "=", "=">>

MsgApplying ==
  <<"P", "r", "o", "v", "i", "s", "i", "o", "n", "i", "n", "g", " ", "c", "l", "o", "u", "d",
    " ", "r", "e", "s", "o", "u", "r", "c", "e", "s", ".", ".", ".">>

MsgExecuted ==
  <<"D", "e", "p", "l", "o", "y", "m", "e", "n", "t", " ", "e", "x", "e", "c", "u", "t", "i",
    "o", "n", " ", "c", "o", "m", "p", "l", "e", "t", "e", "d">>

MsgPhase4 ==
  <<"=", "=", "=", " ", "P", "H", "A", "S", "E", " ", "4", ":", " ", "F", "I", "N", "A", "L",
    "I", "Z", "I", "N", "G", " ", "=", "=", "=">>

MsgCollecting ==
  <<"C", "o", "l", "l", "e", "c", "t", "i", "n", "g", " ", "d", "e", "p", "l", "o", "y", "m",
    "e", "n", "t", " ", "o", "u", "t", "p", "u", "t", "s", ".", ".", ".">>

MsgCompleted ==
  <<"U+2713", " ", "D", "e", "p", "l", "o", "y", "m", "e", "n", "t", " ", "c", "o", "m", "p",
    "l", "e", "t", "e", "d", " ", "s", "u", "c", "c", "e", "s", "s", "f", "u", "l", "l", "y">>

MsgOutputs ==
  <<"O", "u", "t", "p", "u", "t", "s", " ", "c", "o", "l", "l", "e", "c", "t", "e", "d">>

MsgFailed ==
  <<"U+2717", " ", "D", "e", "p", "l", "o", "y", "m", "e", "n", "t", " ", "f", "a", "i", "l",
    "e", "d">>

MsgUnexpected ==
  <<"U+2717", " ", "U", "n", "e", "x", "p", "e", "c", "t", "e", "d", " ", "e", "r", "r", "o",
    "r", " ", "o", "c", "c", "u", "r", "r", "e", "d">>

JsonErrorType1 ==
  <<"{", "\"", "e", "r", "r", "o", "r", "_", "t", "y", "p", "e", "\"", ":", " ", "\"">>

JsonErrorType2 == <<"\"", "}">>

JsonOutputCount1 ==
  <<"{", "\"", "o", "u", "t", "p", "u", "t", "_", "c", "o", "u", "n", "t", "\"", ":", " ">>

JsonOutputCount2 == <<"}">>

JsonLocation1 == <<"{", "\"", "l", "o", "c", "a", "t", "i", "o", "n", "\"", ":", " ", "\"">>

JsonLocation2 ==
  <<"\"", ",", " ", "\"", "r", "e", "s", "o", "u", "r", "c", "e", "_", "g", "r", "o", "u", "p",
    "\"", ":", " ", "\"">>

\* raw tool output of the apply-failure scenario
TxtQuota ==
  <<"E", "r", "r", "o", "r", ":", " ", "q", "u", "o", "t", "a", " ", "e", "x", "c", "e", "e",
    "d", "e", "d">>

\* raw tool output as Terraform prints it: colour codes, a box-drawing bar, a final newline
TxtAnsi ==
  <<"ESC", "[", "3", "1", "m", "U+2502", " ", "E", "r", "r", "o", "r", ":", " ", "Q", "u", "o",
    "t", "a", "E", "x", "c", "e", "e", "d", "e", "d", " ", "f", "o", "r", " ", "c", "o", "r",
    "e", "s", "ESC", "[", "0", "m", "\n">>

\* str() of the error of a result backend that cannot be reached
TxtConnectionRefused ==
  <<"C", "o", "n", "n", "e", "c", "t", "i", "o", "n", " ", "r", "e", "f", "u", "s", "e", "d">>

\* str() of the TypeError of a provider class that takes no cloud_platform
TxtUnexpectedKeyword ==
  <<"C", "l", "o", "u", "d", "P", "r", "o", "v", "i", "d", "e", "r", ".", "_", "_", "i", "n",
    "i", "t", "_", "_", "(", ")", " ", "g", "o", "t", " ", "a", "n", " ", "u", "n", "e", "x",
    "p", "e", "c", "t", "e", "d", " ", "k", "e", "y", "w", "o", "r", "d", " ", "a", "r", "g",
    "u", "m", "e", "n", "t", " ", "'", "c", "l", "o", "u", "d", "_", "p", "l", "a", "t", "f",
    "o", "r", "m", "'">>

TxtNoSuchFile ==
  <<"[", "E", "r", "r", "n", "o", " ", "2", "]", " ", "N", "o", " ", "s", "u", "c", "h", " ",
    "f", "i", "l", "e", " ", "o", "r", " ", "d", "i", "r", "e", "c", "t", "o", "r", "y", ":",
    " ", "'", "m", "a", "i", "n", ".", "t", "f", "'">>

TxtNoTerraform ==
  <<"[", "E", "r", "r", "n", "o", " ", "2", "]", " ", "N", "o", " ", "s", "u", "c", "h", " ",
    "f", "i", "l", "e", " ", "o", "r", " ", "d", "i", "r", "e", "c", "t", "o", "r", "y", ":",
    " ", "'", "t", "e", "r", "r", "a", "f", "o", "r", "m", "'">>

TxtQuotaTitle == <<"Q", "u", "o", "t", "a", " ", "E", "x", "c", "e", "e", "d", "e", "d">>

DeploymentId1 == <<"d", "1">>

DeploymentId2 == <<"d", "2">>

TxtTaskPrefix == <<"t", "a", "s", "k", "-">>

TxtB1 == <<"b", "1">>

TxtP1 == <<"p", "1">>

TxtProd == <<"p", "r", "o", "d">>

JsonLocation3 == <<"\"", "}">>

TxtEastus == <<"e", "a", "s", "t", "u", "s">>

TxtUsEast1 == <<"u", "s", "-", "e", "a", "s", "t", "-", "1">>

TxtRg1 == <<"r", "g", "1">>

TxtMainTf == <<"m", "a", "i", "n", ".", "t", "f">>

TxtSub1 == <<"s", "u", "b", "1">>


TxtP2 == <<"p", "2">>

TxtDev == <<"d", "e", "v">>

TxtRg2 == <<"r", "g", "2">>
ERROR_PATTERNS ==
  <<
    \* admin_password.*fulfill.*conditions.*Has lower.*Has upper.*Has a digit.*Has a special character
    [ pattern  |-> << Lit(<<"a", "d", "m", "i", "n", "_", "p", "a", "s", "s", "w", "o", "r", "d">>) \o <<Dot("*")>> \o Lit(<<"f", "u", "l", "f", "i", "l", "l">>) \o <<Dot("*")>> \o Lit(<<"c", "o", "n", "d", "i", "t", "i", "o", "n", "s">>) \o <<Dot("*")>> \o Lit(<<"H", "a", "s", " ", "l", "o", "w", "e", "r">>) \o <<Dot("*")>> \o Lit(<<"H", "a", "s", " ", "u", "p", "p", "e", "r">>) \o <<Dot("*")>> \o Lit(<<"H", "a", "s", " ", "a", " ", "d", "i", "g", "i", "t">>) \o <<Dot("*")>> \o Lit(<<"H", "a", "s", " ", "a", " ", "s", "p", "e", "c", "i", "a", "l", " ", "c", "h", "a", "r", "a", "c", "t", "e", "r">>) >>,
      title    |-> <<"P", "a", "s", "s", "w", "o", "r", "d", " ", "T", "o", "o", " ", "W", "e", "a", "k">>,
      message  |-> <<"Y", "o", "u", "r", " ", "p", "a", "s", "s", "w", "o", "r", "d", " ", "n", "e", "e", "d", "s", " ", "t", "o", " ", "b", "e", " ", "s", "t", "r", "o", "n", "g", "e", "r", ".">>,
      solution |-> <<"U", "s", "e", " ", "a", " ", "p", "a", "s", "s", "w", "o", "r", "d", " ", "w", "i", "t", "h", ":", " ", "u", "p", "p", "e", "r", "c", "a", "s", "e", " ", "(", "A", "-", "Z", ")", ",", " ", "l", "o", "w", "e", "r", "c", "a", "s", "e", " ", "(", "a", "-", "z", ")", ",", " ", "n", "u", "m", "b", "e", "r", "s", " ", "(", "0", "-", "9", ")", ",", " ", "a", "n", "d", " ", "s", "p", "e", "c", "i", "a", "l", " ", "c", "h", "a", "r", "a", "c", "t", "e", "r", "s", " ", "(", "!", "@", "#", "$", "%", ")">>,
      example  |-> <<"E", "x", "a", "m", "p", "l", "e", ":", " ", "M", "y", "P", "@", "s", "s", "w", "0", "r", "d", "1", "2", "3">> ],
    \* admin_password.*at least (\d+) characters
    [ pattern  |-> << Lit(<<"a", "d", "m", "i", "n", "_", "p", "a", "s", "s", "w", "o", "r", "d">>) \o <<Dot("*")>> \o Lit(<<"a", "t", " ", "l", "e", "a", "s", "t", " ">>) \o <<In(Digits, "+")>> \o Lit(<<" ", "c", "h", "a", "r", "a", "c", "t", "e", "r", "s">>) >>,
      title    |-> <<"P", "a", "s", "s", "w", "o", "r", "d", " ", "T", "o", "o", " ", "S", "h", "o", "r", "t">>,
      message  |-> <<"Y", "o", "u", "r", " ", "p", "a", "s", "s", "w", "o", "r", "d", " ", "i", "s", " ", "t", "o", "o", " ", "s", "h", "o", "r", "t", ".">>,
      solution |-> <<"U", "s", "e", " ", "a", " ", "p", "a", "s", "s", "w", "o", "r", "d", " ", "w", "i", "t", "h", " ", "a", "t", " ", "l", "e", "a", "s", "t", " ", "1", "2", " ", "c", "h", "a", "r", "a", "c", "t", "e", "r", "s", ".">>,
      example  |-> <<"E", "x", "a", "m", "p", "l", "e", ":", " ", "M", "y", "P", "@", "s", "s", "w", "0", "r", "d", "1", "2", "3">> ],
    \* admin_ssh_key.*not a complete SSH2 Public Key
    [ pattern  |-> << Lit(<<"a", "d", "m", "i", "n", "_", "s", "s", "h", "_", "k", "e", "y">>) \o <<Dot("*")>> \o Lit(<<"n", "o", "t", " ", "a", " ", "c", "o", "m", "p", "l", "e", "t", "e", " ", "S", "S", "H", "2", " ", "P", "u", "b", "l", "i", "c", " ", "K", "e", "y">>) >>,
      title    |-> <<"I", "n", "v", "a", "l", "i", "d", " ", "S", "S", "H", " ", "K", "e", "y">>,
      message  |-> <<"T", "h", "e", " ", "S", "S", "H", " ", "p", "u", "b", "l", "i", "c", " ", "k", "e", "y", " ", "f", "o", "r", "m", "a", "t", " ", "i", "s", " ", "i", "n", "c", "o", "r", "r", "e", "c", "t", ".">>,
      solution |-> <<"U", "s", "e", " ", "a", " ", "v", "a", "l", "i", "d", " ", "S", "S", "H", " ", "p", "u", "b", "l", "i", "c", " ", "k", "e", "y", " ", "s", "t", "a", "r", "t", "i", "n", "g", " ", "w", "i", "t", "h", " ", "'", "s", "s", "h", "-", "r", "s", "a", "'", " ", "o", "r", " ", "'", "s", "s", "h", "-", "e", "d", "2", "5", "5", "1", "9", "'", ".">>,
      example  |-> <<"G", "e", "n", "e", "r", "a", "t", "e", " ", "o", "n", "e", " ", "w", "i", "t", "h", ":", " ", "s", "s", "h", "-", "k", "e", "y", "g", "e", "n", " ", "-", "t", " ", "r", "s", "a", " ", "-", "b", " ", "4", "0", "9", "6">> ],
    \* address_space requires \d+ item minimum.*has only 0
    [ pattern  |-> << Lit(<<"a", "d", "d", "r", "e", "s", "s", "_", "s", "p", "a", "c", "e", " ", "r", "e", "q", "u", "i", "r", "e", "s", " ">>) \o <<In(Digits, "+")>> \o Lit(<<" ", "i", "t", "e", "m", " ", "m", "i", "n", "i", "m", "u", "m">>) \o <<Dot("*")>> \o Lit(<<"h", "a", "s", " ", "o", "n", "l", "y", " ", "0">>) >>,
      title    |-> <<"M", "i", "s", "s", "i", "n", "g", " ", "N", "e", "t", "w", "o", "r", "k", " ", "A", "d", "d", "r", "e", "s", "s">>,
      message  |-> <<"V", "i", "r", "t", "u", "a", "l", " ", "n", "e", "t", "w", "o", "r", "k", " ", "a", "d", "d", "r", "e", "s", "s", " ", "s", "p", "a", "c", "e", " ", "i", "s", " ", "r", "e", "q", "u", "i", "r", "e", "d", ".">>,
      solution |-> <<"E", "n", "t", "e", "r", " ", "a", " ", "C", "I", "D", "R", " ", "b", "l", "o", "c", "k", " ", "f", "o", "r", " ", "t", "h", "e", " ", "v", "i", "r", "t", "u", "a", "l", " ", "n", "e", "t", "w", "o", "r", "k", ".">>,
      example  |-> <<"E", "x", "a", "m", "p", "l", "e", ":", " ", "1", "0", ".", "0", ".", "0", ".", "0", "/", "1", "6">> ],
    \* not.*valid CIDR
    [ pattern  |-> << Lit(<<"n", "o", "t">>) \o <<Dot("*")>> \o Lit(<<"v", "a", "l", "i", "d", " ", "C", "I", "D", "R">>) >>,
      title    |-> <<"I", "n", "v", "a", "l", "i", "d", " ", "N", "e", "t", "w", "o", "r", "k", " ", "A", "d", "d", "r", "e", "s", "s">>,
      message  |-> <<"T", "h", "e", " ", "n", "e", "t", "w", "o", "r", "k", " ", "a", "d", "d", "r", "e", "s", "s", " ", "f", "o", "r", "m", "a", "t", " ", "i", "s", " ", "i", "n", "c", "o", "r", "r", "e", "c", "t", ".">>,
      solution |-> <<"U", "s", "e", " ", "C", "I", "D", "R", " ", "n", "o", "t", "a", "t", "i", "o", "n", " ", "(", "I", "P", "/", "p", "r", "e", "f", "i", "x", ")", ".">>,
      example  |-> <<"E", "x", "a", "m", "p", "l", "e", ":", " ", "1", "0", ".", "0", ".", "0", ".", "0", "/", "1", "6", " ", "o", "r", " ", "1", "9", "2", ".", "1", "6", "8", ".", "1", ".", "0", "/", "2", "4">> ],
    \* RequestDisallowedByAzure.*policy.*regions
    [ pattern  |-> << Lit(<<"R", "e", "q", "u", "e", "s", "t", "D", "i", "s", "a", "l", "l", "o", "w", "e", "d", "B", "y", "A", "z", "u", "r", "e">>) \o <<Dot("*")>> \o Lit(<<"p", "o", "l", "i", "c", "y">>) \o <<Dot("*")>> \o Lit(<<"r", "e", "g", "i", "o", "n", "s">>) >>,
      title    |-> <<"R", "e", "g", "i", "o", "n", " ", "N", "o", "t", " ", "A", "l", "l", "o", "w", "e", "d">>,
      message  |-> <<"Y", "o", "u", "r", " ", "A", "z", "u", "r", "e", " ", "s", "u", "b", "s", "c", "r", "i", "p", "t", "i", "o", "n", " ", "r", "e", "s", "t", "r", "i", "c", "t", "s", " ", "d", "e", "p", "l", "o", "y", "m", "e", "n", "t", "s", " ", "t", "o", " ", "c", "e", "r", "t", "a", "i", "n", " ", "r", "e", "g", "i", "o", "n", "s", ".">>,
      solution |-> <<"T", "r", "y", " ", "a", " ", "d", "i", "f", "f", "e", "r", "e", "n", "t", " ", "r", "e", "g", "i", "o", "n", " ", "t", "h", "a", "t", "'", "s", " ", "a", "l", "l", "o", "w", "e", "d", " ", "b", "y", " ", "y", "o", "u", "r", " ", "o", "r", "g", "a", "n", "i", "z", "a", "t", "i", "o", "n", "'", "s", " ", "p", "o", "l", "i", "c", "y", ".">>,
      example  |-> <<"C", "o", "m", "m", "o", "n", " ", "r", "e", "g", "i", "o", "n", "s", ":", " ", "w", "e", "s", "t", "e", "u", "r", "o", "p", "e", ",", " ", "n", "o", "r", "t", "h", "e", "u", "r", "o", "p", "e", ",", " ", "e", "a", "s", "t", "u", "s">> ],
    \* Resource group.*not found|ResourceGroupNotFound
    [ pattern  |-> << Lit(<<"R", "e", "s", "o", "u", "r", "c", "e", " ", "g", "r", "o", "u", "p">>) \o <<Dot("*")>> \o Lit(<<"n", "o", "t", " ", "f", "o", "u", "n", "d">>),
                    Lit(<<"R", "e", "s", "o", "u", "r", "c", "e", "G", "r", "o", "u", "p", "N", "o", "t", "F", "o", "u", "n", "d">>) >>,
      title    |-> <<"R", "e", "s", "o", "u", "r", "c", "e", " ", "G", "r", "o", "u", "p", " ", "N", "o", "t", " ", "F", "o", "u", "n", "d">>,
      message  |-> <<"T", "h", "e", " ", "s", "p", "e", "c", "i", "f", "i", "e", "d", " ", "r", "e", "s", "o", "u", "r", "c", "e", " ", "g", "r", "o", "u", "p", " ", "d", "o", "e", "s", "n", "'", "t", " ", "e", "x", "i", "s", "t", ".">>,
      solution |-> <<"C", "r", "e", "a", "t", "e", " ", "t", "h", "e", " ", "r", "e", "s", "o", "u", "r", "c", "e", " ", "g", "r", "o", "u", "p", " ", "f", "i", "r", "s", "t", " ", "o", "r", " ", "s", "e", "l", "e", "c", "t", " ", "a", "n", " ", "e", "x", "i", "s", "t", "i", "n", "g", " ", "o", "n", "e", ".">>,
      example  |-> <<>> ],
    \* QuotaExceeded|exceeds.*quota
    [ pattern  |-> << Lit(<<"Q", "u", "o", "t", "a", "E", "x", "c", "e", "e", "d", "e", "d">>),
                    Lit(<<"e", "x", "c", "e", "e", "d", "s">>) \o <<Dot("*")>> \o Lit(<<"q", "u", "o", "t", "a">>) >>,
      title    |-> <<"Q", "u", "o", "t", "a", " ", "E", "x", "c", "e", "e", "d", "e", "d">>,
      message  |-> <<"Y", "o", "u", "'", "v", "e", " ", "r", "e", "a", "c", "h", "e", "d", " ", "y", "o", "u", "r", " ", "A", "z", "u", "r", "e", " ", "r", "e", "s", "o", "u", "r", "c", "e", " ", "l", "i", "m", "i", "t", ".">>,
      solution |-> <<"R", "e", "q", "u", "e", "s", "t", " ", "a", " ", "q", "u", "o", "t", "a", " ", "i", "n", "c", "r", "e", "a", "s", "e", " ", "i", "n", " ", "A", "z", "u", "r", "e", " ", "P", "o", "r", "t", "a", "l", " ", "o", "r", " ", "d", "e", "l", "e", "t", "e", " ", "u", "n", "u", "s", "e", "d", " ", "r", "e", "s", "o", "u", "r", "c", "e", "s", ".">>,
      example  |-> <<>> ],
    \* name.*can only contain|invalid.*name|naming convention
    [ pattern  |-> << Lit(<<"n", "a", "m", "e">>) \o <<Dot("*")>> \o Lit(<<"c", "a", "n", " ", "o", "n", "l", "y", " ", "c", "o", "n", "t", "a", "i", "n">>),
                    Lit(<<"i", "n", "v", "a", "l", "i", "d">>) \o <<Dot("*")>> \o Lit(<<"n", "a", "m", "e">>),
                    Lit(<<"n", "a", "m", "i", "n", "g", " ", "c", "o", "n", "v", "e", "n", "t", "i", "o", "n">>) >>,
      title    |-> <<"I", "n", "v", "a", "l", "i", "d", " ", "R", "e", "s", "o", "u", "r", "c", "e", " ", "N", "a", "m", "e">>,
      message  |-> <<"T", "h", "e", " ", "r", "e", "s", "o", "u", "r", "c", "e", " ", "n", "a", "m", "e", " ", "c", "o", "n", "t", "a", "i", "n", "s", " ", "i", "n", "v", "a", "l", "i", "d", " ", "c", "h", "a", "r", "a", "c", "t", "e", "r", "s", ".">>,
      solution |-> <<"U", "s", "e", " ", "o", "n", "l", "y", " ", "l", "o", "w", "e", "r", "c", "a", "s", "e", " ", "l", "e", "t", "t", "e", "r", "s", ",", " ", "n", "u", "m", "b", "e", "r", "s", ",", " ", "a", "n", "d", " ", "h", "y", "p", "h", "e", "n", "s", ".", " ", "S", "t", "a", "r", "t", " ", "w", "i", "t", "h", " ", "a", " ", "l", "e", "t", "t", "e", "r", ".">>,
      example  |-> <<"E", "x", "a", "m", "p", "l", "e", ":", " ", "m", "y", "-", "s", "t", "o", "r", "a", "g", "e", "-", "a", "c", "c", "o", "u", "n", "t", "-", "0", "1">> ],
    \* Storage account name must be between (\d+) and (\d+) characters
    [ pattern  |-> << Lit(<<"S", "t", "o", "r", "a", "g", "e", " ", "a", "c", "c", "o", "u", "n", "t", " ", "n", "a", "m", "e", " ", "m", "u", "s", "t", " ", "b", "e", " ", "b", "e", "t", "w", "e", "e", "n", " ">>) \o <<In(Digits, "+")>> \o Lit(<<" ", "a", "n", "d", " ">>) \o <<In(Digits, "+")>> \o Lit(<<" ", "c", "h", "a", "r", "a", "c", "t", "e", "r", "s">>) >>,
      title    |-> <<"I", "n", "v", "a", "l", "i", "d", " ", "S", "t", "o", "r", "a", "g", "e", " ", "A", "c", "c", "o", "u", "n", "t", " ", "N", "a", "m", "e">>,
      message  |-> <<"S", "t", "o", "r", "a", "g", "e", " ", "a", "c", "c", "o", "u", "n", "t", " ", "n", "a", "m", "e", " ", "l", "e", "n", "g", "t", "h", " ", "i", "s", " ", "i", "n", "c", "o", "r", "r", "e", "c", "t", ".">>,
      solution |-> <<"U", "s", "e", " ", "3", "-", "2", "4", " ", "c", "h", "a", "r", "a", "c", "t", "e", "r", "s", ",", " ", "o", "n", "l", "y", " ", "l", "o", "w", "e", "r", "c", "a", "s", "e", " ", "l", "e", "t", "t", "e", "r", "s", " ", "a", "n", "d", " ", "n", "u", "m", "b", "e", "r", "s", ".">>,
      example  |-> <<"E", "x", "a", "m", "p", "l", "e", ":", " ", "m", "y", "s", "t", "o", "r", "a", "g", "e", "a", "c", "c", "o", "u", "n", "t", "0", "1">> ],
    \* already exists|is already taken|AlreadyExists
    [ pattern  |-> << Lit(<<"a", "l", "r", "e", "a", "d", "y", " ", "e", "x", "i", "s", "t", "s">>),
                    Lit(<<"i", "s", " ", "a", "l", "r", "e", "a", "d", "y", " ", "t", "a", "k", "e", "n">>),
                    Lit(<<"A", "l", "r", "e", "a", "d", "y", "E", "x", "i", "s", "t", "s">>) >>,
      title    |-> <<"N", "a", "m", "e", " ", "A", "l", "r", "e", "a", "d", "y", " ", "T", "a", "k", "e", "n">>,
      message  |-> <<"T", "h", "i", "s", " ", "r", "e", "s", "o", "u", "r", "c", "e", " ", "n", "a", "m", "e", " ", "i", "s", " ", "a", "l", "r", "e", "a", "d", "y", " ", "i", "n", " ", "u", "s", "e", ".">>,
      solution |-> <<"C", "h", "o", "o", "s", "e", " ", "a", " ", "d", "i", "f", "f", "e", "r", "e", "n", "t", ",", " ", "u", "n", "i", "q", "u", "e", " ", "n", "a", "m", "e", ".">>,
      example  |-> <<>> ],
    \* AuthorizationFailed|403.*Forbidden|Access Denied
    [ pattern  |-> << Lit(<<"A", "u", "t", "h", "o", "r", "i", "z", "a", "t", "i", "o", "n", "F", "a", "i", "l", "e", "d">>),
                    Lit(<<"4", "0", "3">>) \o <<Dot("*")>> \o Lit(<<"F", "o", "r", "b", "i", "d", "d", "e", "n">>),
                    Lit(<<"A", "c", "c", "e", "s", "s", " ", "D", "e", "n", "i", "e", "d">>) >>,
      title    |-> <<"A", "c", "c", "e", "s", "s", " ", "D", "e", "n", "i", "e", "d">>,
      message  |-> <<"Y", "o", "u", " ", "d", "o", "n", "'", "t", " ", "h", "a", "v", "e", " ", "p", "e", "r", "m", "i", "s", "s", "i", "o", "n", " ", "t", "o", " ", "p", "e", "r", "f", "o", "r", "m", " ", "t", "h", "i", "s", " ", "a", "c", "t", "i", "o", "n", ".">>,
      solution |-> <<"C", "h", "e", "c", "k", " ", "y", "o", "u", "r", " ", "A", "z", "u", "r", "e", " ", "c", "r", "e", "d", "e", "n", "t", "i", "a", "l", "s", " ", "a", "n", "d", " ", "p", "e", "r", "m", "i", "s", "s", "i", "o", "n", "s", ".">>,
      example  |-> <<>> ],
    \* authentication failed|invalid.*credentials|AADSTS
    [ pattern  |-> << Lit(<<"a", "u", "t", "h", "e", "n", "t", "i", "c", "a", "t", "i", "o", "n", " ", "f", "a", "i", "l", "e", "d">>),
                    Lit(<<"i", "n", "v", "a", "l", "i", "d">>) \o <<Dot("*")>> \o Lit(<<"c", "r", "e", "d", "e", "n", "t", "i", "a", "l", "s">>),
                    Lit(<<"A", "A", "D", "S", "T", "S">>) >>,
      title    |-> <<"A", "u", "t", "h", "e", "n", "t", "i", "c", "a", "t", "i", "o", "n", " ", "F", "a", "i", "l", "e", "d">>,
      message  |-> <<"A", "z", "u", "r", "e", " ", "l", "o", "g", "i", "n", " ", "f", "a", "i", "l", "e", "d", ".">>,
      solution |-> <<"C", "h", "e", "c", "k", " ", "y", "o", "u", "r", " ", "A", "z", "u", "r", "e", " ", "c", "r", "e", "d", "e", "n", "t", "i", "a", "l", "s", " ", "i", "n", " ", "t", "h", "e", " ", "e", "n", "v", "i", "r", "o", "n", "m", "e", "n", "t", " ", "s", "e", "t", "t", "i", "n", "g", "s", ".">>,
      example  |-> <<>> ],
    \* googleapi.*403|Permission.*denied.*GCP
    [ pattern  |-> << Lit(<<"g", "o", "o", "g", "l", "e", "a", "p", "i">>) \o <<Dot("*")>> \o Lit(<<"4", "0", "3">>),
                    Lit(<<"P", "e", "r", "m", "i", "s", "s", "i", "o", "n">>) \o <<Dot("*")>> \o Lit(<<"d", "e", "n", "i", "e", "d">>) \o <<Dot("*")>> \o Lit(<<"G", "C", "P">>) >>,
      title    |-> <<"G", "C", "P", " ", "A", "c", "c", "e", "s", "s", " ", "D", "e", "n", "i", "e", "d">>,
      message  |-> <<"Y", "o", "u", " ", "d", "o", "n", "'", "t", " ", "h", "a", "v", "e", " ", "p", "e", "r", "m", "i", "s", "s", "i", "o", "n", " ", "i", "n", " ", "G", "o", "o", "g", "l", "e", " ", "C", "l", "o", "u", "d", ".">>,
      solution |-> <<"C", "h", "e", "c", "k", " ", "y", "o", "u", "r", " ", "G", "C", "P", " ", "s", "e", "r", "v", "i", "c", "e", " ", "a", "c", "c", "o", "u", "n", "t", " ", "p", "e", "r", "m", "i", "s", "s", "i", "o", "n", "s", ".">>,
      example  |-> <<>> ],
    \* project.*not found|Project.*does not exist
    [ pattern  |-> << Lit(<<"p", "r", "o", "j", "e", "c", "t">>) \o <<Dot("*")>> \o Lit(<<"n", "o", "t", " ", "f", "o", "u", "n", "d">>),
                    Lit(<<"P", "r", "o", "j", "e", "c", "t">>) \o <<Dot("*")>> \o Lit(<<"d", "o", "e", "s", " ", "n", "o", "t", " ", "e", "x", "i", "s", "t">>) >>,
      title    |-> <<"G", "C", "P", " ", "P", "r", "o", "j", "e", "c", "t", " ", "N", "o", "t", " ", "F", "o", "u", "n", "d">>,
      message  |-> <<"T", "h", "e", " ", "s", "p", "e", "c", "i", "f", "i", "e", "d", " ", "G", "C", "P", " ", "p", "r", "o", "j", "e", "c", "t", " ", "d", "o", "e", "s", "n", "'", "t", " ", "e", "x", "i", "s", "t", ".">>,
      solution |-> <<"V", "e", "r", "i", "f", "y", " ", "t", "h", "e", " ", "p", "r", "o", "j", "e", "c", "t", " ", "I", "D", " ", "i", "s", " ", "c", "o", "r", "r", "e", "c", "t", ".">>,
      example  |-> <<>> ],
    \* timeout|connection refused|network.*unreachable
    [ pattern  |-> << Lit(<<"t", "i", "m", "e", "o", "u", "t">>),
                    Lit(<<"c", "o", "n", "n", "e", "c", "t", "i", "o", "n", " ", "r", "e", "f", "u", "s", "e", "d">>),
                    Lit(<<"n", "e", "t", "w", "o", "r", "k">>) \o <<Dot("*")>> \o Lit(<<"u", "n", "r", "e", "a", "c", "h", "a", "b", "l", "e">>) >>,
      title    |-> <<"C", "o", "n", "n", "e", "c", "t", "i", "o", "n", " ", "F", "a", "i", "l", "e", "d">>,
      message  |-> <<"C", "o", "u", "l", "d", " ", "n", "o", "t", " ", "c", "o", "n", "n", "e", "c", "t", " ", "t", "o", " ", "c", "l", "o", "u", "d", " ", "p", "r", "o", "v", "i", "d", "e", "r", ".">>,
      solution |-> <<"C", "h", "e", "c", "k", " ", "y", "o", "u", "r", " ", "i", "n", "t", "e", "r", "n", "e", "t", " ", "c", "o", "n", "n", "e", "c", "t", "i", "o", "n", " ", "a", "n", "d", " ", "t", "r", "y", " ", "a", "g", "a", "i", "n", ".">>,
      example  |-> <<>> ],
    \* Too many parameters.*max:\s*(\d+)
    [ pattern  |-> << Lit(<<"T", "o", "o", " ", "m", "a", "n", "y", " ", "p", "a", "r", "a", "m", "e", "t", "e", "r", "s">>) \o <<Dot("*")>> \o Lit(<<"m", "a", "x", ":">>) \o <<In(Whitespace, "*")>> \o <<In(Digits, "+")>> >>,
      title    |-> <<"T", "o", "o", " ", "M", "a", "n", "y", " ", "P", "a", "r", "a", "m", "e", "t", "e", "r", "s">>,
      message  |-> <<"Y", "o", "u", "'", "v", "e", " ", "p", "r", "o", "v", "i", "d", "e", "d", " ", "t", "o", "o", " ", "m", "a", "n", "y", " ", "c", "o", "n", "f", "i", "g", "u", "r", "a", "t", "i", "o", "n", " ", "p", "a", "r", "a", "m", "e", "t", "e", "r", "s", ".">>,
      solution |-> <<"R", "e", "d", "u", "c", "e", " ", "t", "h", "e", " ", "n", "u", "m", "b", "e", "r", " ", "o", "f", " ", "p", "a", "r", "a", "m", "e", "t", "e", "r", "s", " ", "t", "o", " ", "1", "0", "0", " ", "o", "r", " ", "f", "e", "w", "e", "r", ".">>,
      example  |-> <<>> ],
    \* Parameter name too long
    [ pattern  |-> << Lit(<<"P", "a", "r", "a", "m", "e", "t", "e", "r", " ", "n", "a", "m", "e", " ", "t", "o", "o", " ", "l", "o", "n", "g">>) >>,
      title    |-> <<"P", "a", "r", "a", "m", "e", "t", "e", "r", " ", "N", "a", "m", "e", " ", "T", "o", "o", " ", "L", "o", "n", "g">>,
      message  |-> <<"O", "n", "e", " ", "o", "f", " ", "y", "o", "u", "r", " ", "p", "a", "r", "a", "m", "e", "t", "e", "r", " ", "n", "a", "m", "e", "s", " ", "e", "x", "c", "e", "e", "d", "s", " ", "t", "h", "e", " ", "m", "a", "x", "i", "m", "u", "m", " ", "l", "e", "n", "g", "t", "h", ".">>,
      solution |-> <<"U", "s", "e", " ", "s", "h", "o", "r", "t", "e", "r", " ", "p", "a", "r", "a", "m", "e", "t", "e", "r", " ", "n", "a", "m", "e", "s", " ", "(", "m", "a", "x", " ", "1", "0", "0", " ", "c", "h", "a", "r", "a", "c", "t", "e", "r", "s", ")", ".">>,
      example  |-> <<>> ],
    \* Parameter value too long for '([^']+)'
    [ pattern  |-> << Lit(<<"P", "a", "r", "a", "m", "e", "t", "e", "r", " ", "v", "a", "l", "u", "e", " ", "t", "o", "o", " ", "l", "o", "n", "g", " ", "f", "o", "r", " ", "'">>) \o <<NotIn({"'"}, "+")>> \o Lit(<<"'">>) >>,
      title    |-> <<"P", "a", "r", "a", "m", "e", "t", "e", "r", " ", "V", "a", "l", "u", "e", " ", "T", "o", "o", " ", "L", "o", "n", "g">>,
      message  |-> <<"T", "h", "e", " ", "v", "a", "l", "u", "e", " ", "f", "o", "r", " ", "a", " ", "p", "a", "r", "a", "m", "e", "t", "e", "r", " ", "e", "x", "c", "e", "e", "d", "s", " ", "t", "h", "e", " ", "m", "a", "x", "i", "m", "u", "m", " ", "a", "l", "l", "o", "w", "e", "d", " ", "l", "e", "n", "g", "t", "h", ".">>,
      solution |-> <<"S", "h", "o", "r", "t", "e", "n", " ", "t", "h", "e", " ", "p", "a", "r", "a", "m", "e", "t", "e", "r", " ", "v", "a", "l", "u", "e", " ", "(", "m", "a", "x", " ", "1", "0", ",", "0", "0", "0", " ", "c", "h", "a", "r", "a", "c", "t", "e", "r", "s", ")", ".">>,
      example  |-> <<>> ],
    \* Invalid content.*contains shell metacharacters|[;&|`]
    [ pattern  |-> << Lit(<<"I", "n", "v", "a", "l", "i", "d", " ", "c", "o", "n", "t", "e", "n", "t">>) \o <<Dot("*")>> \o Lit(<<"c", "o", "n", "t", "a", "i", "n", "s", " ", "s", "h", "e", "l", "l", " ", "m", "e", "t", "a", "c", "h", "a", "r", "a", "c", "t", "e", "r", "s">>),
                    <<In({";"} \cup {"&"} \cup {"|"} \cup {"U+0060"}, "1")>> >>,
      title    |-> <<"I", "n", "v", "a", "l", "i", "d", " ", "C", "h", "a", "r", "a", "c", "t", "e", "r", "s", " ", "D", "e", "t", "e", "c", "t", "e", "d">>,
      message  |-> <<"Y", "o", "u", "r", " ", "i", "n", "p", "u", "t", " ", "c", "o", "n", "t", "a", "i", "n", "s", " ", "c", "h", "a", "r", "a", "c", "t", "e", "r", "s", " ", "t", "h", "a", "t", " ", "a", "r", "e", "n", "'", "t", " ", "a", "l", "l", "o", "w", "e", "d", " ", "f", "o", "r", " ", "s", "e", "c", "u", "r", "i", "t", "y", " ", "r", "e", "a", "s", "o", "n", "s", ".">>,
      solution |-> <<"R", "e", "m", "o", "v", "e", " ", "s", "p", "e", "c", "i", "a", "l", " ", "c", "h", "a", "r", "a", "c", "t", "e", "r", "s", " ", "l", "i", "k", "e", " ", ";", " ", "&", " ", "|", " ", "U+0060", " ", "f", "r", "o", "m", " ", "y", "o", "u", "r", " ", "i", "n", "p", "u", "t", ".">>,
      example  |-> <<>> ],
    \* Invalid content.*contains path traversal|\.\./
    [ pattern  |-> << Lit(<<"I", "n", "v", "a", "l", "i", "d", " ", "c", "o", "n", "t", "e", "n", "t">>) \o <<Dot("*")>> \o Lit(<<"c", "o", "n", "t", "a", "i", "n", "s", " ", "p", "a", "t", "h", " ", "t", "r", "a", "v", "e", "r", "s", "a", "l">>),
                    Lit(<<".", ".", "/">>) >>,
      title    |-> <<"I", "n", "v", "a", "l", "i", "d", " ", "P", "a", "t", "h", " ", "D", "e", "t", "e", "c", "t", "e", "d">>,
      message  |-> <<"Y", "o", "u", "r", " ", "i", "n", "p", "u", "t", " ", "c", "o", "n", "t", "a", "i", "n", "s", " ", "p", "a", "t", "h", " ", "p", "a", "t", "t", "e", "r", "n", "s", " ", "t", "h", "a", "t", " ", "a", "r", "e", "n", "'", "t", " ", "a", "l", "l", "o", "w", "e", "d", ".">>,
      solution |-> <<"R", "e", "m", "o", "v", "e", " ", "'", ".", ".", "/", "'", " ", "o", "r", " ", "'", ".", ".", "\\", " ", "p", "a", "t", "t", "e", "r", "n", "s", " ", "f", "r", "o", "m", " ", "y", "o", "u", "r", " ", "i", "n", "p", "u", "t", ".">>,
      example  |-> <<>> ],
    \* Invalid content.*contains script tags|<script
    [ pattern  |-> << Lit(<<"I", "n", "v", "a", "l", "i", "d", " ", "c", "o", "n", "t", "e", "n", "t">>) \o <<Dot("*")>> \o Lit(<<"c", "o", "n", "t", "a", "i", "n", "s", " ", "s", "c", "r", "i", "p", "t", " ", "t", "a", "g", "s">>),
                    Lit(<<"<", "s", "c", "r", "i", "p", "t">>) >>,
      title    |-> <<"S", "c", "r", "i", "p", "t", " ", "N", "o", "t", " ", "A", "l", "l", "o", "w", "e", "d">>,
      message  |-> <<"Y", "o", "u", "r", " ", "i", "n", "p", "u", "t", " ", "c", "o", "n", "t", "a", "i", "n", "s", " ", "s", "c", "r", "i", "p", "t", " ", "c", "o", "n", "t", "e", "n", "t", " ", "t", "h", "a", "t", " ", "i", "s", "n", "'", "t", " ", "a", "l", "l", "o", "w", "e", "d", ".">>,
      solution |-> <<"R", "e", "m", "o", "v", "e", " ", "a", "n", "y", " ", "s", "c", "r", "i", "p", "t", " ", "t", "a", "g", "s", " ", "f", "r", "o", "m", " ", "y", "o", "u", "r", " ", "i", "n", "p", "u", "t", ".">>,
      example  |-> <<>> ],
    \* Invalid content.*contains SQL injection|DROP\s+TABLE
    [ pattern  |-> << Lit(<<"I", "n", "v", "a", "l", "i", "d", " ", "c", "o", "n", "t", "e", "n", "t">>) \o <<Dot("*")>> \o Lit(<<"c", "o", "n", "t", "a", "i", "n", "s", " ", "S", "Q", "L", " ", "i", "n", "j", "e", "c", "t", "i", "o", "n">>),
                    Lit(<<"D", "R", "O", "P">>) \o <<In(Whitespace, "+")>> \o Lit(<<"T", "A", "B", "L", "E">>) >>,
      title    |-> <<"I", "n", "v", "a", "l", "i", "d", " ", "S", "Q", "L", " ", "D", "e", "t", "e", "c", "t", "e", "d">>,
      message  |-> <<"Y", "o", "u", "r", " ", "i", "n", "p", "u", "t", " ", "c", "o", "n", "t", "a", "i", "n", "s", " ", "S", "Q", "L", " ", "p", "a", "t", "t", "e", "r", "n", "s", " ", "t", "h", "a", "t", " ", "a", "r", "e", "n", "'", "t", " ", "a", "l", "l", "o", "w", "e", "d", ".">>,
      solution |-> <<"R", "e", "m", "o", "v", "e", " ", "a", "n", "y", " ", "S", "Q", "L", " ", "c", "o", "m", "m", "a", "n", "d", "s", " ", "f", "r", "o", "m", " ", "y", "o", "u", "r", " ", "i", "n", "p", "u", "t", ".">>,
      example  |-> <<>> ],
    \* Invalid content.*contains code execution|eval\s*\(
    [ pattern  |-> << Lit(<<"I", "n", "v", "a", "l", "i", "d", " ", "c", "o", "n", "t", "e", "n", "t">>) \o <<Dot("*")>> \o Lit(<<"c", "o", "n", "t", "a", "i", "n", "s", " ", "c", "o", "d", "e", " ", "e", "x", "e", "c", "u", "t", "i", "o", "n">>),
                    Lit(<<"e", "v", "a", "l">>) \o <<In(Whitespace, "*")>> \o Lit(<<"(">>) >>,
      title    |-> <<"C", "o", "d", "e", " ", "E", "x", "e", "c", "u", "t", "i", "o", "n", " ", "N", "o", "t", " ", "A", "l", "l", "o", "w", "e", "d">>,
      message  |-> <<"Y", "o", "u", "r", " ", "i", "n", "p", "u", "t", " ", "c", "o", "n", "t", "a", "i", "n", "s", " ", "c", "o", "d", "e", " ", "e", "x", "e", "c", "u", "t", "i", "o", "n", " ", "p", "a", "t", "t", "e", "r", "n", "s", " ", "t", "h", "a", "t", " ", "a", "r", "e", "n", "'", "t", " ", "a", "l", "l", "o", "w", "e", "d", ".">>,
      solution |-> <<"R", "e", "m", "o", "v", "e", " ", "a", "n", "y", " ", "e", "v", "a", "l", "(", ")", " ", "o", "r", " ", "s", "i", "m", "i", "l", "a", "r", " ", "p", "a", "t", "t", "e", "r", "n", "s", " ", "f", "r", "o", "m", " ", "y", "o", "u", "r", " ", "i", "n", "p", "u", "t", ".">>,
      example  |-> <<>> ],
    \* Invalid content in '([^']+)'
    [ pattern  |-> << Lit(<<"I", "n", "v", "a", "l", "i", "d", " ", "c", "o", "n", "t", "e", "n", "t", " ", "i", "n", " ", "'">>) \o <<NotIn({"'"}, "+")>> \o Lit(<<"'">>) >>,
      title    |-> <<"I", "n", "v", "a", "l", "i", "d", " ", "I", "n", "p", "u", "t", " ", "D", "e", "t", "e", "c", "t", "e", "d">>,
      message  |-> <<"Y", "o", "u", "r", " ", "i", "n", "p", "u", "t", " ", "c", "o", "n", "t", "a", "i", "n", "s", " ", "c", "o", "n", "t", "e", "n", "t", " ", "t", "h", "a", "t", " ", "i", "s", "n", "'", "t", " ", "a", "l", "l", "o", "w", "e", "d", " ", "f", "o", "r", " ", "s", "e", "c", "u", "r", "i", "t", "y", " ", "r", "e", "a", "s", "o", "n", "s", ".">>,
      solution |-> <<"R", "e", "v", "i", "e", "w", " ", "y", "o", "u", "r", " ", "i", "n", "p", "u", "t", " ", "a", "n", "d", " ", "r", "e", "m", "o", "v", "e", " ", "a", "n", "y", " ", "s", "p", "e", "c", "i", "a", "l", " ", "p", "a", "t", "t", "e", "r", "n", "s", " ", "o", "r", " ", "s", "c", "r", "i", "p", "t", "s", ".">>,
      example  |-> <<>> ],
    \* Storage account name must be.*3.*24.*lowercase
    [ pattern  |-> << Lit(<<"S", "t", "o", "r", "a", "g", "e", " ", "a", "c", "c", "o", "u", "n", "t", " ", "n", "a", "m", "e", " ", "m", "u", "s", "t", " ", "b", "e">>) \o <<Dot("*")>> \o Lit(<<"3">>) \o <<Dot("*")>> \o Lit(<<"2", "4">>) \o <<Dot("*")>> \o Lit(<<"l", "o", "w", "e", "r", "c", "a", "s", "e">>) >>,
      title    |-> <<"I", "n", "v", "a", "l", "i", "d", " ", "S", "t", "o", "r", "a", "g", "e", " ", "A", "c", "c", "o", "u", "n", "t", " ", "N", "a", "m", "e">>,
      message  |-> <<"A", "z", "u", "r", "e", " ", "s", "t", "o", "r", "a", "g", "e", " ", "a", "c", "c", "o", "u", "n", "t", " ", "n", "a", "m", "e", "s", " ", "h", "a", "v", "e", " ", "s", "p", "e", "c", "i", "f", "i", "c", " ", "r", "e", "q", "u", "i", "r", "e", "m", "e", "n", "t", "s", ".">>,
      solution |-> <<"U", "s", "e", " ", "3", "-", "2", "4", " ", "c", "h", "a", "r", "a", "c", "t", "e", "r", "s", ",", " ", "o", "n", "l", "y", " ", "l", "o", "w", "e", "r", "c", "a", "s", "e", " ", "l", "e", "t", "t", "e", "r", "s", " ", "a", "n", "d", " ", "n", "u", "m", "b", "e", "r", "s", " ", "(", "n", "o", " ", "h", "y", "p", "h", "e", "n", "s", ")", ".">>,
      example  |-> <<"E", "x", "a", "m", "p", "l", "e", ":", " ", "m", "y", "s", "t", "o", "r", "a", "g", "e", "a", "c", "c", "o", "u", "n", "t", "0", "1">> ],
    \* Resource group name.*invalid|Resource group.*1-90 characters
    [ pattern  |-> << Lit(<<"R", "e", "s", "o", "u", "r", "c", "e", " ", "g", "r", "o", "u", "p", " ", "n", "a", "m", "e">>) \o <<Dot("*")>> \o Lit(<<"i", "n", "v", "a", "l", "i", "d">>),
                    Lit(<<"R", "e", "s", "o", "u", "r", "c", "e", " ", "g", "r", "o", "u", "p">>) \o <<Dot("*")>> \o Lit(<<"1", "-", "9", "0", " ", "c", "h", "a", "r", "a", "c", "t", "e", "r", "s">>) >>,
      title    |-> <<"I", "n", "v", "a", "l", "i", "d", " ", "R", "e", "s", "o", "u", "r", "c", "e", " ", "G", "r", "o", "u", "p", " ", "N", "a", "m", "e">>,
      message  |-> <<"T", "h", "e", " ", "r", "e", "s", "o", "u", "r", "c", "e", " ", "g", "r", "o", "u", "p", " ", "n", "a", "m", "e", " ", "d", "o", "e", "s", "n", "'", "t", " ", "m", "e", "e", "t", " ", "A", "z", "u", "r", "e", " ", "r", "e", "q", "u", "i", "r", "e", "m", "e", "n", "t", "s", ".">>,
      solution |-> <<"U", "s", "e", " ", "1", "-", "9", "0", " ", "c", "h", "a", "r", "a", "c", "t", "e", "r", "s", ":", " ", "l", "e", "t", "t", "e", "r", "s", ",", " ", "n", "u", "m", "b", "e", "r", "s", ",", " ", "h", "y", "p", "h", "e", "n", "s", ",", " ", "u", "n", "d", "e", "r", "s", "c", "o", "r", "e", "s", ",", " ", "p", "e", "r", "i", "o", "d", "s", ",", " ", "o", "r", " ", "p", "a", "r", "e", "n", "t", "h", "e", "s", "e", "s", ".">>,
      example  |-> <<"E", "x", "a", "m", "p", "l", "e", ":", " ", "m", "y", "-", "r", "e", "s", "o", "u", "r", "c", "e", "-", "g", "r", "o", "u", "p", "-", "0", "1">> ],
    \* GCP bucket name.*invalid|Bucket name must be.*3-63
    [ pattern  |-> << Lit(<<"G", "C", "P", " ", "b", "u", "c", "k", "e", "t", " ", "n", "a", "m", "e">>) \o <<Dot("*")>> \o Lit(<<"i", "n", "v", "a", "l", "i", "d">>),
                    Lit(<<"B", "u", "c", "k", "e", "t", " ", "n", "a", "m", "e", " ", "m", "u", "s", "t", " ", "b", "e">>) \o <<Dot("*")>> \o Lit(<<"3", "-", "6", "3">>) >>,
      title    |-> <<"I", "n", "v", "a", "l", "i", "d", " ", "B", "u", "c", "k", "e", "t", " ", "N", "a", "m", "e">>,
      message  |-> <<"T", "h", "e", " ", "G", "C", "P", " ", "b", "u", "c", "k", "e", "t", " ", "n", "a", "m", "e", " ", "d", "o", "e", "s", "n", "'", "t", " ", "m", "e", "e", "t", " ", "r", "e", "q", "u", "i", "r", "e", "m", "e", "n", "t", "s", ".">>,
      solution |-> <<"U", "s", "e", " ", "3", "-", "6", "3", " ", "c", "h", "a", "r", "a", "c", "t", "e", "r", "s", ":", " ", "l", "o", "w", "e", "r", "c", "a", "s", "e", " ", "l", "e", "t", "t", "e", "r", "s", ",", " ", "n", "u", "m", "b", "e", "r", "s", ",", " ", "h", "y", "p", "h", "e", "n", "s", ".", " ", "S", "t", "a", "r", "t", "/", "e", "n", "d", " ", "w", "i", "t", "h", " ", "l", "e", "t", "t", "e", "r", " ", "o", "r", " ", "n", "u", "m", "b", "e", "r", ".">>,
      example  |-> <<"E", "x", "a", "m", "p", "l", "e", ":", " ", "m", "y", "-", "s", "t", "o", "r", "a", "g", "e", "-", "b", "u", "c", "k", "e", "t", "-", "0", "1">> ],
    \* Project ID.*invalid|project_id.*6-30 characters
    [ pattern  |-> << Lit(<<"P", "r", "o", "j", "e", "c", "t", " ", "I", "D">>) \o <<Dot("*")>> \o Lit(<<"i", "n", "v", "a", "l", "i", "d">>),
                    Lit(<<"p", "r", "o", "j", "e", "c", "t", "_", "i", "d">>) \o <<Dot("*")>> \o Lit(<<"6", "-", "3", "0", " ", "c", "h", "a", "r", "a", "c", "t", "e", "r", "s">>) >>,
      title    |-> <<"I", "n", "v", "a", "l", "i", "d", " ", "G", "C", "P", " ", "P", "r", "o", "j", "e", "c", "t", " ", "I", "D">>,
      message  |-> <<"T", "h", "e", " ", "G", "C", "P", " ", "p", "r", "o", "j", "e", "c", "t", " ", "I", "D", " ", "d", "o", "e", "s", "n", "'", "t", " ", "m", "e", "e", "t", " ", "r", "e", "q", "u", "i", "r", "e", "m", "e", "n", "t", "s", ".">>,
      solution |-> <<"U", "s", "e", " ", "6", "-", "3", "0", " ", "c", "h", "a", "r", "a", "c", "t", "e", "r", "s", ":", " ", "l", "o", "w", "e", "r", "c", "a", "s", "e", " ", "l", "e", "t", "t", "e", "r", "s", ",", " ", "n", "u", "m", "b", "e", "r", "s", ",", " ", "h", "y", "p", "h", "e", "n", "s", ".", " ", "S", "t", "a", "r", "t", " ", "w", "i", "t", "h", " ", "a", " ", "l", "e", "t", "t", "e", "r", ".">>,
      example  |-> <<"E", "x", "a", "m", "p", "l", "e", ":", " ", "m", "y", "-", "p", "r", "o", "j", "e", "c", "t", "-", "1", "2", "3">> ],
    \* CIDR.*invalid|Invalid CIDR
    [ pattern  |-> << Lit(<<"C", "I", "D", "R">>) \o <<Dot("*")>> \o Lit(<<"i", "n", "v", "a", "l", "i", "d">>),
                    Lit(<<"I", "n", "v", "a", "l", "i", "d", " ", "C", "I", "D", "R">>) >>,
      title    |-> <<"I", "n", "v", "a", "l", "i", "d", " ", "N", "e", "t", "w", "o", "r", "k", " ", "A", "d", "d", "r", "e", "s", "s">>,
      message  |-> <<"T", "h", "e", " ", "n", "e", "t", "w", "o", "r", "k", " ", "a", "d", "d", "r", "e", "s", "s", " ", "(", "C", "I", "D", "R", ")", " ", "f", "o", "r", "m", "a", "t", " ", "i", "s", " ", "i", "n", "c", "o", "r", "r", "e", "c", "t", ".">>,
      solution |-> <<"U", "s", "e", " ", "C", "I", "D", "R", " ", "n", "o", "t", "a", "t", "i", "o", "n", ":", " ", "I", "P", " ", "a", "d", "d", "r", "e", "s", "s", " ", "f", "o", "l", "l", "o", "w", "e", "d", " ", "b", "y", " ", "/", "p", "r", "e", "f", "i", "x", ".">>,
      example  |-> <<"E", "x", "a", "m", "p", "l", "e", ":", " ", "1", "0", ".", "0", ".", "0", ".", "0", "/", "1", "6", " ", "o", "r", " ", "1", "9", "2", ".", "1", "6", "8", ".", "1", ".", "0", "/", "2", "4">> ],
    \* IP address.*invalid|Invalid IP
    [ pattern  |-> << Lit(<<"I", "P", " ", "a", "d", "d", "r", "e", "s", "s">>) \o <<Dot("*")>> \o Lit(<<"i", "n", "v", "a", "l", "i", "d">>),
                    Lit(<<"I", "n", "v", "a", "l", "i", "d", " ", "I", "P">>) >>,
      title    |-> <<"I", "n", "v", "a", "l", "i", "d", " ", "I", "P", " ", "A", "d", "d", "r", "e", "s", "s">>,
      message  |-> <<"T", "h", "e", " ", "I", "P", " ", "a", "d", "d", "r", "e", "s", "s", " ", "f", "o", "r", "m", "a", "t", " ", "i", "s", " ", "i", "n", "c", "o", "r", "r", "e", "c", "t", ".">>,
      solution |-> <<"U", "s", "e", " ", "s", "t", "a", "n", "d", "a", "r", "d", " ", "I", "P", "v", "4", " ", "f", "o", "r", "m", "a", "t", ".">>,
      example  |-> <<"E", "x", "a", "m", "p", "l", "e", ":", " ", "1", "9", "2", ".", "1", "6", "8", ".", "1", ".", "1">> ],
    \* app_name.*reserved word|name.*reserved|is a reserved word
    [ pattern  |-> << Lit(<<"a", "p", "p", "_", "n", "a", "m", "e">>) \o <<Dot("*")>> \o Lit(<<"r", "e", "s", "e", "r", "v", "e", "d", " ", "w", "o", "r", "d">>),
                    Lit(<<"n", "a", "m", "e">>) \o <<Dot("*")>> \o Lit(<<"r", "e", "s", "e", "r", "v", "e", "d">>),
                    Lit(<<"i", "s", " ", "a", " ", "r", "e", "s", "e", "r", "v", "e", "d", " ", "w", "o", "r", "d">>) >>,
      title    |-> <<"R", "e", "s", "e", "r", "v", "e", "d", " ", "N", "a", "m", "e">>,
      message  |-> <<"Y", "o", "u", " ", "c", "a", "n", "'", "t", " ", "u", "s", "e", " ", "t", "h", "i", "s", " ", "n", "a", "m", "e", " ", "b", "e", "c", "a", "u", "s", "e", " ", "i", "t", "'", "s", " ", "r", "e", "s", "e", "r", "v", "e", "d", ".">>,
      solution |-> <<"C", "h", "o", "o", "s", "e", " ", "a", " ", "d", "i", "f", "f", "e", "r", "e", "n", "t", " ", "n", "a", "m", "e", " ", "t", "h", "a", "t", " ", "i", "s", "n", "'", "t", " ", "a", " ", "r", "e", "s", "e", "r", "v", "e", "d", " ", "w", "o", "r", "d", ".">>,
      example  |-> <<>> ],
    \* app_name.*3-24 characters|name.*must be.*characters
    [ pattern  |-> << Lit(<<"a", "p", "p", "_", "n", "a", "m", "e">>) \o <<Dot("*")>> \o Lit(<<"3", "-", "2", "4", " ", "c", "h", "a", "r", "a", "c", "t", "e", "r", "s">>),
                    Lit(<<"n", "a", "m", "e">>) \o <<Dot("*")>> \o Lit(<<"m", "u", "s", "t", " ", "b", "e">>) \o <<Dot("*")>> \o Lit(<<"c", "h", "a", "r", "a", "c", "t", "e", "r", "s">>) >>,
      title    |-> <<"I", "n", "v", "a", "l", "i", "d", " ", "A", "p", "p", "l", "i", "c", "a", "t", "i", "o", "n", " ", "N", "a", "m", "e">>,
      message  |-> <<"T", "h", "e", " ", "a", "p", "p", "l", "i", "c", "a", "t", "i", "o", "n", " ", "n", "a", "m", "e", " ", "l", "e", "n", "g", "t", "h", " ", "i", "s", " ", "i", "n", "c", "o", "r", "r", "e", "c", "t", ".">>,
      solution |-> <<"U", "s", "e", " ", "3", "-", "2", "4", " ", "c", "h", "a", "r", "a", "c", "t", "e", "r", "s", ":", " ", "l", "o", "w", "e", "r", "c", "a", "s", "e", " ", "l", "e", "t", "t", "e", "r", "s", ",", " ", "n", "u", "m", "b", "e", "r", "s", ",", " ", "a", "n", "d", " ", "h", "y", "p", "h", "e", "n", "s", ".">>,
      example  |-> <<"E", "x", "a", "m", "p", "l", "e", ":", " ", "m", "y", "-", "w", "e", "b", "-", "a", "p", "p">> ]
  >>

MarkerError == <<"E", "r", "r", "o", "r", ":">>

\* error_indicators of _extract_key_error
ErrorIndicators ==
  { <<"e", "r", "r", "o", "r", ":">>,
    <<"f", "a", "i", "l", "e", "d", ":">>,
    <<"i", "n", "v", "a", "l", "i", "d">>,
    <<"n", "o", "t", " ", "f", "o", "u", "n", "d">>,
    <<"d", "e", "n", "i", "e", "d">> }

IsErrorLine(line) == StartsWith(Strip(line), MarkerError)

IsIndicatorLine(line) ==
  /\ \E ind \in ErrorIndicators : Contains(ToLower(line), ind)
  /\ Len(Strip(line)) > 10

\* index of the first line satisfying Test, 0 when none
FirstLine(lines, Test(_)) ==
  LET hits == {i \in DOMAIN lines : Test(lines[i])}
  IN  IF hits = {} THEN 0 ELSE Least(hits)

IsNonEmptyLine(line) == Strip(line) # <<>>

TxtDeploymentFailed ==
  <<"D", "e", "p", "l", "o", "y", "m", "e", "n", "t", " ", "f", "a", "i", "l", "e", "d">>

\* the three loops of _extract_key_error over the lines, e1, e2, e3 being the first
\* line each loop stops at (0 when it stops at none)
KeyError(lines, e1, e2, e3) ==
  IF e1 # 0 THEN Strip(Remove(Strip(lines[e1]), MarkerError))
  ELSE IF e2 # 0 THEN Take(Strip(lines[e2]), 200)
  ELSE IF e3 # 0 THEN Take(Strip(lines[e3]), 200)
  ELSE TxtDeploymentFailed

KeyErrorOfLines(lines) ==
  KeyError(lines, FirstLine(lines, IsErrorLine), FirstLine(lines, IsIndicatorLine),
           FirstLine(lines, IsNonEmptyLine))

_extract_key_error(error_message) == KeyErrorOfLines(Split(error_message))

\* index of the first rule of ERROR_PATTERNS whose pattern is found in the text; 0
\* when none is
\* the rules of ERROR_PATTERNS whose pattern is found in the text low (in lower case)
Hits(low) == {i \in DOMAIN ERROR_PATTERNS : SearchLower(ERROR_PATTERNS[i].pattern, low)}

\* a faulty variant of FirstOf: the loop does not stop at the first rule that
\* matches, so the last one wins
LastOf(hits) == IF hits = {} THEN 0 ELSE CHOOSE x \in hits : \A y \in hits : y <= x

FirstOf(hits) == IF hits = {} THEN 0 ELSE Least(hits)

FirstMatch(error_message) == FirstOf(Hits(ToLower(error_message)))

TxtUnknownError == <<"U", "n", "k", "n", "o", "w", "n", " ", "E", "r", "r", "o", "r">>

TxtUnexpected ==
  <<"A", "n", " ", "u", "n", "e", "x", "p", "e", "c", "t", "e", "d", " ", "e", "r", "r", "o", "r",
    " ", "o", "c", "c", "u", "r", "r", "e", "d", ".">>

TxtTryAgain ==
  <<"P", "l", "e", "a", "s", "e", " ", "t", "r", "y", " ", "a", "g", "a", "i", "n", " ", "o", "r",
    " ", "c", "o", "n", "t", "a", "c", "t", " ", "s", "u", "p", "p", "o", "r", "t", ".">>

TxtDeploymentError ==
  <<"D", "e", "p", "l", "o", "y", "m", "e", "n", "t", " ", "E", "r", "r", "o", "r">>

TxtReview ==
  <<"R", "e", "v", "i", "e", "w", " ", "t", "h", "e", " ", "e", "r", "r", "o", "r", " ", "d", "e",
    "t", "a", "i", "l", "s", " ", "a", "n", "d", " ", "a", "d", "j", "u", "s", "t", " ", "y", "o",
    "u", "r", " ", "c", "o", "n", "f", "i", "g", "u", "r", "a", "t", "i", "o", "n", ".">>

\* the result for a text that rule matched
Matched(rule, error_message) ==
  [title    |-> rule.title,
   message  |-> rule.message,
   solution |-> rule.solution,
   original |-> _extract_key_error(error_message),
   example  |-> rule.example]

\* the result for a text that rule r matched first, or that none matched (r = 0)
Classify(error_message, r) ==
  IF r # 0
    THEN Matched(ERROR_PATTERNS[r], error_message)
    ELSE [title    |-> TxtDeploymentError,
          message  |-> _extract_key_error(error_message),
          solution |-> TxtReview,
          original |-> Take(error_message, 500),
          example  |-> <<>>]

parse_terraform_error(error_message) ==
  IF error_message = <<>>
    THEN [title |-> TxtUnknownError, message |-> TxtUnexpected, solution |-> TxtTryAgain,
          original |-> <<>>, example |-> <<>>]
    ELSE Classify(error_message, FirstMatch(error_message))

----------------------------------------------------------------------------
(* State                                                                   *)

VARIABLES
  store,       \* table deployments: deployment_id -> committed row (partial map)
  registry,    \* ProviderFactory._providers: sequence of <<tag, class>>, in insertion order
  pc,          \* per deployment: where its request / task message / task body stands
  request,     \* per deployment: the arguments of the enqueued task message
  task,        \* per deployment: the local variables of the running task body
  progress,    \* per deployment: state and meta of its task in the result backend
  outcome,     \* per deployment: how the last run of the task body ended
  now,         \* datetime.utcnow()
  dirs,        \* number of directories tempfile.mkdtemp has created
  arg,         \* the argument of a call of a function checked on its own
  ret,         \* what that call returned, NULL before it
  stream,      \* per deployment: the log stream a client has opened on it
  hist         \* per deployment: counts of what has happened (not program state):
               \* starts of the task body, worker losses, whether the last worker lost
               \* was lost between the RUNNING commit and a terminal commit, and for the current
               \* run of the task body the calls, the terminal commits and the working
               \* directories it has made, and the terraform commands it has run, each
               \* with how it ended

vars == <<store, registry, pc, request, task, progress, outcome, now, dirs, arg, ret, stream, hist>>

\* how many times a worker may be lost per deployment
MaxCrashes == 1

DeploymentIds == {DeploymentId1}

\* SQL NULL / Python None, and a present value
NULL == <<>>

Some(v) == <<v>>

Val(o) == o[1]

\* mappings (dict) are functions; the empty dict
EmptyMap == [k \in {} |-> <<>>]

\* class DeploymentStatus of core/database.py
DeploymentStatus == {"PENDING", "RUNNING", "COMPLETED", "FAILED", "CANCELLED"}

\* provider_type values a request may carry
ProviderTypes == {TypeTerraformGcp, TypeTerraformAzure, TypeBicep, TypeCustom}

\* parameter mappings a request for this provider_type may carry
ParameterChoices(provider_type) ==
  IF provider_type = TypeTerraformGcp
    THEN { [k \in {"tags", "projectId", "resource_group_name"} |->
              CASE k = "tags" -> TxtProd [] k = "projectId" -> TxtP1 [] OTHER -> TxtRg1] }
    ELSE { [k \in {"bucket_name"} |-> TxtB1] }

\* raw texts the external tool or a provider may produce
RawTexts == {TxtQuota, TxtAnsi}

\* outputs a deploy may produce
OutputChoices == {EmptyMap, [k \in {"bucket_name"} |-> TxtB1]}

\* the positions of a running task body
RunningPcs ==
  {"update_initializing", "log_initializing", "create_provider", "log_provider_initialized",
   "log_starting", "update_validating", "log_validating", "update_planning", "log_planning",
   "update_applying", "log_applying", "invoke_deploy", "mock_deploy", "tf_config", "tf_init",
   "tf_plan", "tf_apply", "tf_output", "log_executed", "update_finalizing", "log_finalizing",
   "commit_completed", "update_success", "return", "except_deployment_error",
   "except_exception", "update_failure", "raise"}

NoTask ==
  [deployment |-> FALSE, actual_provider_type |-> <<>>, provider |-> NULL,
   deployment_parameters |-> NULL, config_dir |-> NULL, e |-> NULL,
   friendly_msg |-> <<>>, result |-> NULL]

NoProgress == [state |-> "PENDING", phase |-> "", status |-> "", progress |-> 0, error |-> NULL]

NoOutcome == [kind |-> "none", type |-> <<>>, error |-> <<>>, summary |-> NULL]

\* no log stream has been opened
NoStream == [pc |-> "none", iteration |-> 0, last_log_length |-> 0, events |-> <<>>]

NoHist ==
  [starts |-> 0, crashes |-> 0, lost_running |-> FALSE, creates |-> 0, deploys |-> 0,
   inits |-> 0, plans |-> 0, applies |-> 0, tf_outputs |-> 0, terminals |-> 0,
   mkdtemps |-> 0, runs |-> <<>>, deletes |-> 0]

\* the state after construction of everything but a call checked on its own
Constructed ==
  /\ store = [d \in {} |-> <<>>]
  /\ registry = << <<TypeTerraformAzure, "TerraformProvider">>,
                   <<TypeTerraformGcp, "TerraformProvider">>,
                   <<TypeGcp, "TerraformProvider">>,
                   <<TypeTerraform, "TerraformProvider">> >>
  /\ pc = [d \in DeploymentIds |-> "idle"]
  /\ request = [d \in DeploymentIds |-> NULL]
  /\ task = [d \in DeploymentIds |-> NoTask]
  /\ progress = [d \in DeploymentIds |-> NoProgress]
  /\ outcome = [d \in DeploymentIds |-> NoOutcome]
  /\ now = 1
  /\ dirs = 0
  /\ hist = [d \in DeploymentIds |-> NoHist]
  /\ stream = [d \in DeploymentIds |-> NoStream]

Init ==
  /\ Constructed
  /\ arg = NULL
  /\ ret = NULL

----------------------------------------------------------------------------
(* Accepting endpoint and record store (api/routers/deployments.py)        *)

\* Deployment(...) as the endpoint builds it: the columns it does not set are NULL
Deployment(deployment_id, provider_type, parameters) ==
  [deployment_id |-> deployment_id, provider_type |-> provider_type, status |-> "PENDING",
   created_at |-> now, started_at |-> NULL, completed_at |-> NULL,
   parameters |-> parameters, outputs |-> NULL, error_message |-> NULL, logs |-> NULL,
   celery_task_id |-> NULL]

\* the id Celery gives the message of deploy_task.delay(...); a redelivery keeps it
TaskId(d) == TxtTaskPrefix \o d

\* a faulty variant of CreateRecord: the row is added to the session but the commit
\* is left to the end of the request, after the task has been put on the queue
CreateRecordUncommitted(d) ==
  /\ pc[d] = "idle"
  /\ \E provider_type \in ProviderTypes : \E parameters \in ParameterChoices(provider_type) :
       request' = [request EXCEPT ![d] = Some(
            [deployment_id |-> d, provider_type |-> provider_type,
             template_path |-> TxtMainTf, parameters |-> parameters,
             resource_group |-> TxtRg1,
             provider_config |->
               [subscription_id |-> TxtSub1, region |-> TxtEastus,
                cloud_platform |-> IF provider_type \in {TypeGcp, TypeTerraformGcp}
                                     THEN TypeGcp ELSE TypeAzure]])]
  /\ pc' = [pc EXCEPT ![d] = "accepted"]
  /\ UNCHANGED <<store, registry, task, progress, outcome, now, dirs, hist>>
  /\ UNCHANGED <<arg, ret, stream>>

\* step 4 of the endpoint: db.add(deployment); db.commit()
CreateRecord(d) ==
  /\ pc[d] = "idle"
  /\ \E provider_type \in ProviderTypes : \E parameters \in ParameterChoices(provider_type) :
       /\ store' = (d :> Deployment(d, provider_type, parameters)) @@ store
       /\ request' = [request EXCEPT ![d] = Some(
            [deployment_id |-> d, provider_type |-> provider_type,
             template_path |-> TxtMainTf, parameters |-> parameters,
             resource_group |-> TxtRg1,
             provider_config |->
               [subscription_id |-> TxtSub1, region |-> TxtEastus,
                cloud_platform |-> IF provider_type \in {TypeGcp, TypeTerraformGcp}
                                     THEN TypeGcp ELSE TypeAzure]])]
  /\ pc' = [pc EXCEPT ![d] = "accepted"]
  /\ UNCHANGED <<registry, task, progress, outcome, now, dirs, hist>>
  /\ UNCHANGED <<arg, ret, stream>>

\* step 5 of the endpoint: deploy_task.delay(...) puts the message on the queue
Enqueue(d) ==
  /\ pc[d] = "accepted"
  /\ pc' = [pc EXCEPT ![d] = "queued"]
  /\ UNCHANGED <<store, registry, request, task, progress, outcome, now, dirs, hist>>
  /\ UNCHANGED <<arg, ret, stream>>

\* deploy_task.delay(...) raises (the broker cannot be reached): the endpoint answers
\* error_response and leaves the committed row as it is
EnqueueFails(d) ==
  /\ pc[d] = "accepted"
  /\ pc' = [pc EXCEPT ![d] = "rejected"]
  /\ UNCHANGED <<store, registry, request, task, progress, outcome, now, dirs, hist>>
  /\ UNCHANGED <<arg, ret, stream>>

\* DELETE /deployments/{id}, while no task body is running on the row
delete_deployment(d) ==
  /\ d \in DOMAIN store
  /\ pc[d] \in {"queued", "rejected", "ended"}
  /\ store' = [x \in DOMAIN store \ {d} |-> store[x]]
  /\ hist' = [hist EXCEPT ![d].deletes = 1]
  /\ UNCHANGED <<registry, pc, request, task, progress, outcome, now, dirs>>
  /\ UNCHANGED <<arg, ret, stream>>

----------------------------------------------------------------------------
(* Provider factory (providers/factory.py)                                 *)

Tags(reg) == {reg[i][1] : i \in DOMAIN reg}

ClassOf(reg, tag) == reg[CHOOSE i \in DOMAIN reg : reg[i][1] = tag][2]

\* ", ".join(cls._providers.keys())
RECURSIVE JoinTags(_, _)
JoinTags(reg, i) ==
  IF i > Len(reg) THEN <<>>
  ELSE reg[i][1] \o (IF i < Len(reg) THEN TxtCommaSpace ELSE <<>>) \o JoinTags(reg, i + 1)

\* ProviderFactory.register_provider(name, cls): a new tag goes last
register_provider(reg, provider_name, provider_class) ==
  IF ToLower(provider_name) \in Tags(reg)
    THEN [i \in DOMAIN reg |->
            IF reg[i][1] = ToLower(provider_name)
              THEN <<reg[i][1], provider_class>> ELSE reg[i]]
    ELSE Append(reg, <<ToLower(provider_name), provider_class>>)

\* a provider class is registered when the worker loads its modules, before it takes
\* a task
RegisterProvider ==
  /\ \A d \in DeploymentIds : pc[d] = "idle"
  /\ TypeCustom \notin Tags(registry)
  /\ registry' = register_provider(registry, TypeCustom, "MockProvider")
  /\ UNCHANGED <<store, pc, request, task, progress, outcome, now, dirs, hist>>
  /\ UNCHANGED <<arg, ret, stream>>

\* the exception a step raises: its class name, str(e) and the call that raised it
Exc(type, text, origin) == [type |-> type, text |-> text, origin |-> origin]

\* a faulty variant of create_provider: a tag that is not registered gets the class
\* registered for "terraform"
create_providerFallback(reg, provider_type, installed, accepts) ==
  LET class == IF ToLower(provider_type) \in Tags(reg)
                 THEN ClassOf(reg, ToLower(provider_type))
                 ELSE ClassOf(reg, TypeTerraform)
      raised == IF class = "TerraformProvider"
                  THEN IF installed THEN <<>> ELSE TxtNotInstalled
                  ELSE IF accepts THEN <<>> ELSE TxtUnexpectedKeyword
  IN  IF raised = <<>>
        THEN [ok |-> TRUE, made |-> class = "TerraformProvider", class |-> class,
              e |-> Exc(<<>>, <<>>, "")]
        ELSE [ok |-> FALSE, made |-> class = "TerraformProvider", class |-> class,
              e |-> Exc(ExcProviderConfigurationError,
                        TxtFailedInit1 \o provider_type \o TxtFailedInit2 \o raised,
                        "create_provider")]

\* ProviderFactory.create_provider: the provider object, or the exception raised.
\* installed: what TerraformProvider._check_terraform_installed finds;
\* accepts: whether a registered class takes the keyword arguments it is given
create_provider(reg, provider_type, installed, accepts) ==
  IF ToLower(provider_type) \notin Tags(reg)
    THEN [ok |-> FALSE, made |-> FALSE, class |-> "",
          e |-> Exc(ExcProviderConfigurationError,
                    TxtUnsupported1 \o provider_type \o TxtUnsupported2 \o JoinTags(reg, 1),
                    "create_provider")]
  ELSE LET class == ClassOf(reg, ToLower(provider_type))
           \* str() of what the constructor raises, <<>> when it returns
           raised == IF class = "TerraformProvider"
                       THEN IF installed THEN <<>> ELSE TxtNotInstalled
                       ELSE IF accepts THEN <<>> ELSE TxtUnexpectedKeyword
       IN  IF raised = <<>>
             THEN [ok |-> TRUE, made |-> class = "TerraformProvider", class |-> class,
                   e |-> Exc(<<>>, <<>>, "")]
             ELSE [ok |-> FALSE, made |-> class = "TerraformProvider", class |-> class,
                   e |-> Exc(ExcProviderConfigurationError,
                             TxtFailedInit1 \o provider_type \o TxtFailedInit2 \o raised,
                             "create_provider")]

----------------------------------------------------------------------------
(* Terraform provider (providers/terraform_provider.py)                    *)

\* what subprocess.run can do with one terraform command
RunOutcomes ==
  {[kind |-> "exit", returncode |-> 0, output |-> <<>>]}
    \cup {[kind |-> "exit", returncode |-> 1, output |-> raw] : raw \in RawTexts}
    \cup {[kind |-> "exit", returncode |-> 2, output |-> TxtQuota]}
    \cup {[kind |-> "timeout", returncode |-> 0, output |-> <<>>],
          [kind |-> "oserror", returncode |-> 0, output |-> TxtNoTerraform]}

\* TerraformProvider._run_terraform_command: (output, returncode), or the error raised
_run_terraform_command(o) ==
  CASE o.kind = "exit" ->
         [raised |-> FALSE, output |-> o.output, returncode |-> o.returncode, message |-> <<>>]
    [] o.kind = "timeout" ->
         [raised |-> TRUE, output |-> <<>>, returncode |-> 0, message |-> TxtTimedOut]
    [] OTHER ->
         [raised |-> TRUE, output |-> <<>>, returncode |-> 0,
          message |-> TxtFailedExecute \o o.output]

\* the except clause of TerraformProvider.deploy: whatever was raised inside becomes
\* DeploymentError("Terraform deployment failed: " + str(e))
DeployError(text) == Exc(ExcDeploymentError, TxtDeployFailed \o text, "deploy")

----------------------------------------------------------------------------
(* Orchestrator task deploy_infrastructure (tasks/deployment_tasks.py)     *)

Upper(phase) ==
  CASE phase = "initialization" -> "INITIALIZATION"
    [] phase = "validating" -> "VALIDATING"
    [] phase = "planning" -> "PLANNING"
    [] phase = "applying" -> "APPLYING"
    [] phase = "finalizing" -> "FINALIZING"
    [] phase = "completed" -> "COMPLETED"
    [] phase = "failed" -> "FAILED"

\* log_entry: one line "[timestamp] [LEVEL] [PHASE] message - details", kept by its parts
log_entry(level, message, phase, details) ==
  [kind |-> "entry", ts |-> now, level |-> level, phase |-> Upper(phase),
   message |-> message, details |-> details]

\* the "\n" put in front of a phase header
BlankLine ==
  [kind |-> "blank", ts |-> 0, level |-> "", phase |-> "", message |-> <<>>, details |-> <<>>]

\* text appended to the blob that is no log_entry
RawChunk(text) ==
  [kind |-> "raw", ts |-> 0, level |-> "", phase |-> "", message |-> text, details |-> <<>>]

DigitText == <<"0", "1", "2", "3", "4", "5", "6", "7", "8", "9">>

\* str(n) for one digit
NumText(n) == <<DigitText[n + 1]>>

provider_type_mapping(provider_type) ==
  CASE provider_type = TypeBicep -> TypeAzure
    [] provider_type = TypeArm -> TypeAzure
    [] provider_type = TypeTerraformAzure -> TypeTerraformAzure
    [] provider_type = TypeTerraformGcp -> TypeTerraformGcp
    [] OTHER -> provider_type

Put(m, k, v) == [x \in DOMAIN m \cup {k} |-> IF x = k THEN v ELSE m[x]]

Del(m, k) == [x \in DOMAIN m \ {k} |-> m[x]]

\* the merge of provider_config into the parameters handed to deploy
MergeParameters(actual_provider_type, parameters, provider_config, resource_group, location) ==
  LET azure == Put(Put(parameters, "subscription_id", provider_config.subscription_id),
                   "resource_group_name", resource_group)
      g1 == IF "tags" \in DOMAIN parameters
              THEN Put(Del(parameters, "tags"), "labels", parameters["tags"])
              ELSE parameters
      g2 == IF "projectId" \in DOMAIN g1 /\ "project_id" \notin DOMAIN g1
              THEN Put(Del(g1, "projectId"), "project_id", g1["projectId"])
              ELSE g1
      g3 == IF "project_id" \notin DOMAIN g2 /\ "project_id" \in DOMAIN provider_config
              THEN Put(g2, "project_id", provider_config["project_id"])
              ELSE g2
      g4 == IF "resource_group_name" \in DOMAIN g3 THEN Del(g3, "resource_group_name") ELSE g3
      merged == IF Contains(actual_provider_type, TypeAzure) THEN azure
                ELSE IF Contains(actual_provider_type, TypeGcp) THEN g4
                ELSE parameters
  IN  Put(merged, "location", location)

\* hasattr(e, 'get_friendly_message'): only MultiCloudException (core/exceptions.py)
\* defines it; DeploymentError and ProviderConfigurationError derive from Exception
HasFriendlyMessage(type) == type \in {ExcMultiCloudException}

\* "title | message | Solution: s | example" of MultiCloudException.get_friendly_message
FriendlyText(parsed) ==
  parsed.title \o TxtBar \o parsed.message
    \o (IF parsed.solution # <<>> THEN TxtBar \o TxtSolutionColon \o parsed.solution ELSE <<>>)
    \o (IF parsed.example # <<>> THEN TxtBar \o parsed.example ELSE <<>>)

\* MultiCloudException.get_friendly_message
get_friendly_message(text) == FriendlyText(parse_terraform_error(text))

\* friendly_msg of the handler of DeploymentError and ProviderConfigurationError
FriendlyOfTyped(e) ==
  IF HasFriendlyMessage(e.type) THEN get_friendly_message(e.text) ELSE e.text

\* f"{title} | {message}" and " | Solution: ..." of the handler of any other exception
TitleMessageSolution(parsed) ==
  parsed.title \o TxtBar \o parsed.message
    \o (IF parsed.solution # <<>> THEN TxtSolution \o parsed.solution ELSE <<>>)

\* friendly_msg of the handler of any other exception
FriendlyOfException(e) ==
  TitleMessageSolution(parse_terraform_error(strip_ansi_codes(e.text)))

\* traceback.format_exc(): it ends with the exception's class and str()
format_exc(e) == TxtTraceback \o e.type \o TxtColonSpace \o e.text \o TxtNewline

\* which except clause of the task body takes an exception of this class
HandlerOf(type) ==
  IF type \in {ExcDeploymentError, ExcProviderConfigurationError}
    THEN "except_deployment_error" ELSE "except_exception"

Goto(d, next) == pc' = [pc EXCEPT ![d] = next]

\* an exception leaves the try block
Raise(d, e) ==
  /\ task' = [task EXCEPT ![d].e = Some(e)]
  /\ Goto(d, HandlerOf(e.type))

\* deployment.logs += lines; db.commit()   (only if the row was found)
AppendLogs(d, lines) ==
  store' = IF task[d].deployment
             THEN [store EXCEPT ![d].logs = Some(Val(@) \o lines)]
             ELSE store

\* self.update_state(state=..., meta=...) inside the try block: the result backend
\* stores it, or cannot be reached and the call raises
UpdateState(d, meta, next) ==
  \/ /\ progress' = [progress EXCEPT ![d] = meta]
     /\ Goto(d, next)
     /\ UNCHANGED task
  \/ /\ Raise(d, Exc(ExcConnectionError, TxtConnectionRefused, "update_state"))
     /\ UNCHANGED progress

Meta(state, phase, status, value) ==
  [state |-> state, phase |-> phase, status |-> status, progress |-> value, error |-> NULL]

\* lines 111-121: load the row, move it to RUNNING
TaskStart(d) ==
  /\ pc[d] = "queued"
  /\ LET found == d \in DOMAIN store
     IN  /\ store' = IF found
                       THEN [store EXCEPT ![d] =
                               [@ EXCEPT !.status = "RUNNING",
                                         !.started_at = Some(now),
                                         !.celery_task_id = Some(TaskId(d)),
                                         !.logs = Some(<<log_entry("INFO", MsgStarting \o d,
                                                                   "initialization", <<>>)>>)]]
                       ELSE store
         /\ task' = [task EXCEPT ![d] = [NoTask EXCEPT !.deployment = found]]
         /\ now' = IF found THEN now + 1 ELSE now
  /\ progress' = [progress EXCEPT ![d] = [NoProgress EXCEPT !.state = "STARTED"]]
  /\ outcome' = [outcome EXCEPT ![d] = NoOutcome]
  /\ hist' = [hist EXCEPT ![d] = [NoHist EXCEPT !.starts = hist[d].starts + 1,
                                                !.crashes = hist[d].crashes,
                                                !.lost_running = hist[d].lost_running,
                                                !.deletes = hist[d].deletes]]
  /\ Goto(d, "update_initializing")
  /\ UNCHANGED <<registry, request, dirs>>
  /\ UNCHANGED <<arg, ret, stream>>

\* lines 126-133
UpdateInitializing(d) ==
  /\ pc[d] = "update_initializing"
  /\ UpdateState(d, Meta("RUNNING", "", "initializing", 10), "log_initializing")
  /\ UNCHANGED <<store, registry, request, outcome, now, dirs, hist>>
  /\ UNCHANGED <<arg, ret, stream>>

\* lines 137-148
LogInitializing(d) ==
  /\ pc[d] = "log_initializing"
  /\ LET actual_provider_type == provider_type_mapping(Val(request[d]).provider_type)
     IN  /\ task' = [task EXCEPT ![d].actual_provider_type = actual_provider_type]
         /\ AppendLogs(d, <<log_entry("INFO",
                                      MsgInitializing1 \o actual_provider_type \o MsgInitializing2,
                                      "initialization", <<>>)>>)
  /\ Goto(d, "create_provider")
  /\ UNCHANGED <<registry, request, progress, outcome, now, dirs, hist>>
  /\ UNCHANGED <<arg, ret, stream>>

\* a faulty variant of CreateProvider: the provider works in one fixed directory
\* instead of the one tempfile.mkdtemp makes for it
CreateProviderFixedDir(d) ==
  /\ pc[d] = "create_provider"
  /\ \E installed \in BOOLEAN : \E accepts \in BOOLEAN :
       LET r == create_provider(registry, task[d].actual_provider_type, installed, accepts)
       IN  /\ dirs' = dirs
           /\ hist' = [hist EXCEPT ![d].creates = @ + 1]
           /\ IF r.ok
                THEN /\ task' = [task EXCEPT ![d].provider =
                                   Some([class |-> r.class,
                                         cloud_platform |-> Val(request[d]).provider_config.cloud_platform,
                                         working_dir |-> IF r.made THEN 1 ELSE 0,
                                         files |-> {}])]
                     /\ Goto(d, "log_provider_initialized")
                ELSE Raise(d, r.e)
  /\ UNCHANGED <<store, registry, request, progress, outcome, now>>
  /\ UNCHANGED <<arg, ret, stream>>

\* lines 150-151
CreateProvider(d) ==
  /\ pc[d] = "create_provider"
  /\ \E installed \in BOOLEAN : \E accepts \in BOOLEAN :
       LET r == create_provider(registry, task[d].actual_provider_type, installed, accepts)
       IN  /\ dirs' = IF r.made THEN dirs + 1 ELSE dirs
           /\ hist' = [hist EXCEPT ![d].creates = @ + 1,
                                   ![d].mkdtemps = IF r.made THEN @ + 1 ELSE @]
           /\ IF r.ok
                THEN /\ task' = [task EXCEPT ![d].provider =
                                   Some([class |-> r.class,
                                         cloud_platform |-> Val(request[d]).provider_config.cloud_platform,
                                         working_dir |-> IF r.made THEN dirs + 1 ELSE 0,
                                         files |-> {}])]
                     /\ Goto(d, "log_provider_initialized")
                ELSE Raise(d, r.e)
  /\ UNCHANGED <<store, registry, request, progress, outcome, now>>
  /\ UNCHANGED <<arg, ret, stream>>

\* lines 153-158
LogProviderInitialized(d) ==
  /\ pc[d] = "log_provider_initialized"
  /\ AppendLogs(d, <<log_entry("INFO", MsgProviderInitialized, "initialization", <<>>)>>)
  /\ Goto(d, "log_starting")
  /\ UNCHANGED <<registry, request, task, progress, outcome, now, dirs, hist>>
  /\ UNCHANGED <<arg, ret, stream>>

\* location = provider_config.get("region", "us-east-1")
Location(provider_config) ==
  IF "region" \in DOMAIN provider_config THEN provider_config.region ELSE TxtUsEast1

\* lines 160-169
LogStarting(d) ==
  /\ pc[d] = "log_starting"
  /\ LET r == Val(request[d])
         location == Location(r.provider_config)
     IN  AppendLogs(d,
           <<log_entry("INFO", MsgStartingTo \o location, "initialization",
                       JsonLocation1 \o location \o JsonLocation2 \o r.resource_group
                         \o JsonLocation3),
             log_entry("INFO", MsgResourceGroup \o r.resource_group, "initialization", <<>>),
             log_entry("INFO", MsgTemplate \o r.template_path, "initialization", <<>>)>>)
  /\ Goto(d, "update_validating")
  /\ UNCHANGED <<registry, request, task, progress, outcome, now, dirs, hist>>
  /\ UNCHANGED <<arg, ret, stream>>

\* lines 172-180
UpdateValidating(d) ==
  /\ pc[d] = "update_validating"
  /\ UpdateState(d, Meta("RUNNING", "validating", "Validating template configuration", 25),
                 "log_validating")
  /\ UNCHANGED <<store, registry, request, outcome, now, dirs, hist>>
  /\ UNCHANGED <<arg, ret, stream>>

\* a faulty variant of LogValidating: the header lines are held back for a later
\* commit instead of being committed before the next progress update
LogValidatingBatched(d) ==
  /\ pc[d] = "log_validating"
  /\ Goto(d, "update_planning")
  /\ UNCHANGED <<store, registry, request, task, progress, outcome, now, dirs, hist>>
  /\ UNCHANGED <<arg, ret, stream>>

\* lines 181-184
LogValidating(d) ==
  /\ pc[d] = "log_validating"
  /\ AppendLogs(d, <<BlankLine, log_entry("INFO", MsgPhase1, "validating", <<>>),
                     log_entry("INFO", MsgValidating, "validating", <<>>)>>)
  /\ Goto(d, "update_planning")
  /\ UNCHANGED <<registry, request, task, progress, outcome, now, dirs, hist>>
  /\ UNCHANGED <<arg, ret, stream>>

\* a faulty variant of UpdatePlanning: the planning update is not published
UpdatePlanningSkipped(d) ==
  /\ pc[d] = "update_planning"
  /\ Goto(d, "log_planning")
  /\ UNCHANGED <<store, registry, request, task, progress, outcome, now, dirs, hist>>
  /\ UNCHANGED <<arg, ret, stream>>

\* lines 187-195
UpdatePlanning(d) ==
  /\ pc[d] = "update_planning"
  /\ UpdateState(d, Meta("RUNNING", "planning", "Generating execution plan", 40),
                 "log_planning")
  /\ UNCHANGED <<store, registry, request, outcome, now, dirs, hist>>
  /\ UNCHANGED <<arg, ret, stream>>

\* lines 196-199
LogPlanning(d) ==
  /\ pc[d] = "log_planning"
  /\ AppendLogs(d, <<BlankLine, log_entry("INFO", MsgPhase2, "planning", <<>>),
                     log_entry("INFO", MsgPlanning, "planning", <<>>)>>)
  /\ Goto(d, "update_applying")
  /\ UNCHANGED <<registry, request, task, progress, outcome, now, dirs, hist>>
  /\ UNCHANGED <<arg, ret, stream>>

\* lines 202-210
UpdateApplying(d) ==
  /\ pc[d] = "update_applying"
  /\ UpdateState(d, Meta("RUNNING", "applying", "Applying infrastructure changes", 60),
                 "log_applying")
  /\ UNCHANGED <<store, registry, request, outcome, now, dirs, hist>>
  /\ UNCHANGED <<arg, ret, stream>>

\* lines 211-214
LogApplying(d) ==
  /\ pc[d] = "log_applying"
  /\ AppendLogs(d, <<BlankLine, log_entry("INFO", MsgPhase3, "applying", <<>>),
                     log_entry("INFO", MsgApplying, "applying", <<>>)>>)
  /\ Goto(d, "invoke_deploy")
  /\ UNCHANGED <<registry, request, task, progress, outcome, now, dirs, hist>>
  /\ UNCHANGED <<arg, ret, stream>>

\* lines 216-254: merge the parameters and call provider.deploy
InvokeDeploy(d) ==
  /\ pc[d] = "invoke_deploy"
  /\ LET r == Val(request[d])
     IN  task' = [task EXCEPT ![d].deployment_parameters =
                    Some(MergeParameters(task[d].actual_provider_type, r.parameters,
                                         r.provider_config, r.resource_group,
                                         Location(r.provider_config)))]
  /\ Goto(d, IF Val(task[d].provider).class = "TerraformProvider" THEN "tf_config"
             ELSE "mock_deploy")
  /\ hist' = [hist EXCEPT ![d].deploys = @ + 1]
  /\ UNCHANGED <<store, registry, request, progress, outcome, now, dirs>>
  /\ UNCHANGED <<arg, ret, stream>>

\* deploy of a class registered with register_provider: it may return any result
\* (no outputs attribute, outputs None, or a mapping) or raise anything
MockDeploy(d) ==
  /\ pc[d] = "mock_deploy"
  /\ \/ /\ \E result \in {[has_outputs |-> FALSE, outputs |-> NULL],
                          [has_outputs |-> TRUE, outputs |-> NULL]}
                           \cup {[has_outputs |-> TRUE, outputs |-> Some(o)] :
                                   o \in OutputChoices} :
             task' = [task EXCEPT ![d].result = Some(result)]
        /\ Goto(d, "log_executed")
     \/ \E type \in {ExcDeploymentError, ExcProviderConfigurationError, ExcRuntimeError} :
          \E raw \in RawTexts : Raise(d, Exc(type, raw, "deploy"))
  /\ UNCHANGED <<store, registry, request, progress, outcome, now, dirs, hist>>
  /\ UNCHANGED <<arg, ret, stream>>

\* str() of the OSError of a write to a full disk
TxtNoSpace ==
  <<"[", "E", "r", "r", "n", "o", " ", "2", "8", "]", " ", "N", "o", " ", "s", "p", "a", "c",
    "e", " ", "l", "e", "f", "t", " ", "o", "n", " ", "d", "e", "v", "i", "c", "e">>

TxtUnsupportedPlatform ==
  <<"U", "n", "s", "u", "p", "p", "o", "r", "t", "e", "d", " ", "c", "l", "o", "u", "d", " ",
    "p", "l", "a", "t", "f", "o", "r", "m", ":", " ">>

\* TerraformProvider._generate_provider_block: <<>> when it returns the block, else
\* str() of the ProviderConfigurationError it raises
_generate_provider_block(cloud_platform) ==
  IF cloud_platform \in {TypeAzure, TypeGcp} THEN <<>>
  ELSE TxtUnsupportedPlatform \o cloud_platform

\* the steps of deploy lines 379-389 and of _generate_terraform_config that read or
\* write a file, in their order; resource_group.tf is written only for azure, when
\* the resource group is found not to exist
ConfigSteps(cloud_platform, rg_exists) ==
  <<"read_template">>
    \o (IF cloud_platform = TypeAzure /\ ~rg_exists THEN <<"resource_group.tf">> ELSE <<>>)
    \o <<"main.tf", "terraform.tfvars", "read_tfvars">>

\* the files of the configuration directory after the first n steps
FilesAfter(steps, n) ==
  {steps[i] : i \in 1..n} \ {"read_template", "read_tfvars"}

\* str() of the OSError of a step that fails
ConfigError(step) == IF step = "read_template" THEN TxtNoSuchFile ELSE TxtNoSpace

\* a faulty variant of TerraformConfig: an error of a step is logged and deploy goes on
\* to terraform init with the files written so far
TerraformConfigLenient(d) ==
  /\ pc[d] = "tf_config"
  /\ \E rg_exists \in BOOLEAN :
       LET provider == Val(task[d].provider)
           steps == ConfigSteps(provider.cloud_platform, rg_exists)
       IN  \E n \in 0..Len(steps) :
             /\ task' = [task EXCEPT ![d].provider = Some([provider EXCEPT !.files = FilesAfter(steps, n)]),
                                     ![d].config_dir = Some(provider.working_dir)]
             /\ Goto(d, "tf_init")
  /\ UNCHANGED <<store, registry, request, progress, outcome, now, dirs, hist>>
  /\ UNCHANGED <<arg, ret, stream>>

\* TerraformProvider.deploy lines 373-389 and _generate_terraform_config: read the
\* template, write the files of the configuration directory; the first step that fails
\* ends deploy with DeploymentError("Terraform deployment failed: ...")
TerraformConfig(d) ==
  /\ pc[d] = "tf_config"
  /\ \E rg_exists \in BOOLEAN :
       LET provider == Val(task[d].provider)
           steps == ConfigSteps(provider.cloud_platform, rg_exists)
       IN  IF _generate_provider_block(provider.cloud_platform) # <<>>
             THEN /\ task' = [task EXCEPT ![d].e = Some(DeployError(
                                  _generate_provider_block(provider.cloud_platform)))]
                  /\ Goto(d, HandlerOf(ExcDeploymentError))
             ELSE \E n \in 0..Len(steps) :
                    IF n = Len(steps)
                      THEN /\ task' = [task EXCEPT
                                         ![d].provider = Some([provider EXCEPT !.files = FilesAfter(steps, n)]),
                                         ![d].config_dir = Some(provider.working_dir)]
                           /\ Goto(d, "tf_init")
                      ELSE /\ task' = [task EXCEPT
                                         ![d].provider = Some([provider EXCEPT !.files = FilesAfter(steps, n)]),
                                         ![d].e = Some(DeployError(ConfigError(steps[n + 1])))]
                           /\ Goto(d, HandlerOf(ExcDeploymentError))
  /\ UNCHANGED <<store, registry, request, progress, outcome, now, dirs, hist>>
  /\ UNCHANGED <<arg, ret, stream>>

\* the entry of hist for one run of a terraform command: the counter of the command
\* goes up and the run is noted with what _run_terraform_command did
Ran(h, counter, r) ==
  [h EXCEPT ![counter] = @ + 1,
            !.runs = Append(@, [command |-> counter, raised |-> r.raised,
                                returncode |-> r.returncode])]

\* a faulty variant of TerraformCommand: a command that exits nonzero is run again
TerraformCommandRetry(d, counter, failed, next) ==
  \E o \in RunOutcomes :
    LET r == _run_terraform_command(o)
    IN  /\ hist' = [hist EXCEPT ![d] = Ran(@, counter, r)]
        /\ IF r.raised THEN Raise(d, DeployError(r.message))
           ELSE IF r.returncode # 0 THEN UNCHANGED <<pc, task>>
           ELSE Goto(d, next) /\ UNCHANGED task

\* a faulty variant of TerraformCommand: the exit code is not looked at
TerraformCommandUnchecked(d, counter, failed, next) ==
  \E o \in RunOutcomes :
    LET r == _run_terraform_command(o)
    IN  /\ hist' = [hist EXCEPT ![d] = Ran(@, counter, r)]
        /\ IF r.raised THEN Raise(d, DeployError(r.message))
           ELSE Goto(d, next) /\ UNCHANGED task

\* one of init, plan, apply: run the command, raise on a nonzero exit code
TerraformCommand(d, counter, failed, next) ==
  \E o \in RunOutcomes :
    LET r == _run_terraform_command(o)
    IN  /\ hist' = [hist EXCEPT ![d] = Ran(@, counter, r)]
        /\ IF r.raised THEN Raise(d, DeployError(r.message))
           ELSE IF r.returncode # 0 THEN Raise(d, DeployError(failed \o r.output))
           ELSE Goto(d, next) /\ UNCHANGED task

\* TerraformProvider.deploy lines 391-401
TerraformInit(d) ==
  /\ pc[d] = "tf_init"
  /\ TerraformCommand(d, "inits", TxtInitFailed, "tf_plan")
  /\ UNCHANGED <<store, registry, request, progress, outcome, now, dirs>>
  /\ UNCHANGED <<arg, ret, stream>>

\* TerraformProvider.deploy lines 403-413
TerraformPlan(d) ==
  /\ pc[d] = "tf_plan"
  /\ TerraformCommand(d, "plans", TxtPlanFailed, "tf_apply")
  /\ UNCHANGED <<store, registry, request, progress, outcome, now, dirs>>
  /\ UNCHANGED <<arg, ret, stream>>

\* TerraformProvider.deploy lines 415-425
TerraformApply(d) ==
  /\ pc[d] = "tf_apply"
  /\ TerraformCommand(d, "applies", TxtApplyFailed, "tf_output")
  /\ UNCHANGED <<store, registry, request, progress, outcome, now, dirs>>
  /\ UNCHANGED <<arg, ret, stream>>

\* TerraformProvider.deploy lines 427-449: terraform output -json, its exit code
\* ignored; outputs is the parsed mapping, {} for no or unparsable output
TerraformOutput(d) ==
  /\ pc[d] = "tf_output"
  /\ \E o \in RunOutcomes :
       LET r == _run_terraform_command(o)
       IN  /\ hist' = [hist EXCEPT ![d] = Ran(@, "tf_outputs", r)]
           /\ IF r.raised THEN Raise(d, DeployError(r.message))
              ELSE /\ \E outputs \in OutputChoices :
                        task' = [task EXCEPT ![d].result =
                                   Some([has_outputs |-> TRUE, outputs |-> Some(outputs)])]
                   /\ Goto(d, "log_executed")
  /\ UNCHANGED <<store, registry, request, progress, outcome, now, dirs>>
  /\ UNCHANGED <<arg, ret, stream>>

\* lines 256-261
LogExecuted(d) ==
  /\ pc[d] = "log_executed"
  /\ AppendLogs(d, <<log_entry("INFO", MsgExecuted, "applying", <<>>)>>)
  /\ Goto(d, "update_finalizing")
  /\ UNCHANGED <<registry, request, task, progress, outcome, now, dirs, hist>>
  /\ UNCHANGED <<arg, ret, stream>>

\* lines 264-272
UpdateFinalizing(d) ==
  /\ pc[d] = "update_finalizing"
  /\ UpdateState(d, Meta("RUNNING", "finalizing", "Retrieving outputs and finalizing", 90),
                 "log_finalizing")
  /\ UNCHANGED <<store, registry, request, outcome, now, dirs, hist>>
  /\ UNCHANGED <<arg, ret, stream>>

\* lines 273-276
LogFinalizing(d) ==
  /\ pc[d] = "log_finalizing"
  /\ AppendLogs(d, <<BlankLine, log_entry("INFO", MsgPhase4, "finalizing", <<>>),
                     log_entry("INFO", MsgCollecting, "finalizing", <<>>)>>)
  /\ Goto(d, "commit_completed")
  /\ UNCHANGED <<registry, request, task, progress, outcome, now, dirs, hist>>
  /\ UNCHANGED <<arg, ret, stream>>

\* result.outputs if hasattr(result, 'outputs') else {}
OutputsOf(result) == IF result.has_outputs THEN result.outputs ELSE Some(EmptyMap)

\* hasattr(result, 'outputs') and result.outputs
HasOutputs(result) ==
  result.has_outputs /\ result.outputs # NULL /\ DOMAIN Val(result.outputs) # {}

\* lines 279-287
CommitCompleted(d) ==
  /\ pc[d] = "commit_completed"
  /\ LET result == Val(task[d].result)
     IN  store' =
           IF task[d].deployment
             THEN [store EXCEPT ![d] =
                     [@ EXCEPT !.status = "COMPLETED",
                               !.completed_at = Some(now),
                               !.outputs = OutputsOf(result),
                               !.logs = Some(Val(@)
                                  \o <<log_entry("INFO", MsgCompleted, "completed", <<>>)>>
                                  \o (IF HasOutputs(result)
                                        THEN <<log_entry("INFO", MsgOutputs, "completed",
                                                 JsonOutputCount1
                                                   \o NumText(Cardinality(DOMAIN Val(result.outputs)))
                                                   \o JsonOutputCount2)>>
                                        ELSE <<>>))]]
             ELSE store
  /\ now' = IF task[d].deployment THEN now + 1 ELSE now
  /\ hist' = [hist EXCEPT ![d].terminals = IF task[d].deployment THEN @ + 1 ELSE @]
  /\ Goto(d, "update_success")
  /\ UNCHANGED <<registry, request, task, progress, outcome, dirs>>
  /\ UNCHANGED <<arg, ret, stream>>

\* lines 292-300
UpdateSuccess(d) ==
  /\ pc[d] = "update_success"
  /\ UpdateState(d, Meta("SUCCESS", "completed", "Deployment completed successfully", 100),
                 "return")
  /\ UNCHANGED <<store, registry, request, outcome, now, dirs, hist>>
  /\ UNCHANGED <<arg, ret, stream>>

\* lines 302-308: the task returns its summary; Celery stores SUCCESS and acknowledges
\* the message
TaskReturn(d) ==
  /\ pc[d] = "return"
  /\ outcome' = [outcome EXCEPT ![d] =
       [kind |-> "returned", type |-> <<>>, error |-> <<>>,
        summary |-> Some([deployment_id |-> d, status |-> "completed", phase |-> "completed",
                          outputs |-> OutputsOf(Val(task[d].result)),
                          message |-> "Deployment completed successfully"])]]
  /\ progress' = [progress EXCEPT ![d].state = "SUCCESS"]
  /\ Goto(d, "ended")
  /\ UNCHANGED <<store, registry, request, task, now, dirs, hist>>
  /\ UNCHANGED <<arg, ret, stream>>

\* a faulty variant of FailRow: when no row was found, one is created to hold the
\* failure
FailRowUpsert(d, error_message, lines) ==
  /\ LET r == Val(request[d])
         row == IF task[d].deployment THEN store[d]
                ELSE [Deployment(d, r.provider_type, r.parameters) EXCEPT !.logs = Some(<<>>)]
     IN  store' = (d :> [row EXCEPT !.status = "FAILED",
                                    !.completed_at = Some(now),
                                    !.error_message = Some(error_message),
                                    !.logs = Some(Val(@) \o lines)]) @@ store
  /\ now' = now + 1
  /\ hist' = [hist EXCEPT ![d].terminals = @ + 1]

\* the row updates of the two except clauses: lines 316-323 and 349-357
FailRow(d, error_message, lines) ==
  /\ store' = IF task[d].deployment
                THEN [store EXCEPT ![d] =
                        [@ EXCEPT !.status = "FAILED",
                                  !.completed_at = Some(now),
                                  !.error_message = Some(error_message),
                                  !.logs = Some(Val(@) \o lines)]]
                ELSE store
  /\ now' = IF task[d].deployment THEN now + 1 ELSE now
  /\ hist' = [hist EXCEPT ![d].terminals = IF task[d].deployment THEN @ + 1 ELSE @]

\* a faulty variant of FailTyped: the row gets the friendly message as it is, escape
\* sequences included
FailTypedUnstripped(d, e, friendly_msg) ==
  /\ FailRow(d, friendly_msg,
             <<BlankLine,
               log_entry("ERROR", MsgFailed, "failed", JsonErrorType1 \o e.type \o JsonErrorType2),
               log_entry("ERROR", friendly_msg, "failed", <<>>)>>)
  /\ task' = [task EXCEPT ![d].friendly_msg = friendly_msg]

\* lines 316-323: what the handler of DeploymentError and ProviderConfigurationError
\* does with e and its friendly_msg
FailTyped(d, e, friendly_msg) ==
  /\ FailRow(d, strip_ansi_codes(friendly_msg),
             <<BlankLine,
               log_entry("ERROR", MsgFailed, "failed", JsonErrorType1 \o e.type \o JsonErrorType2),
               log_entry("ERROR", strip_ansi_codes(friendly_msg), "failed", <<>>)>>)
  /\ task' = [task EXCEPT ![d].friendly_msg = friendly_msg]

\* lines 310-323: except (DeploymentError, ProviderConfigurationError)
HandleDeploymentError(d) ==
  /\ pc[d] = "except_deployment_error"
  /\ FailTyped(d, Val(task[d].e), FriendlyOfTyped(Val(task[d].e)))
  /\ Goto(d, "update_failure")
  /\ UNCHANGED <<registry, request, progress, outcome, dirs>>
  /\ UNCHANGED <<arg, ret, stream>>

\* lines 349-357: what the handler of any other exception does with e and its
\* friendly_msg
FailUnexpected(d, e, friendly_msg) ==
  /\ FailRow(d, friendly_msg,
             <<BlankLine,
               log_entry("ERROR", MsgUnexpected, "failed",
                         JsonErrorType1 \o e.type \o JsonErrorType2),
               log_entry("ERROR", friendly_msg, "failed", <<>>),
               RawChunk(TxtFullTraceback \o format_exc(e))>>)
  /\ task' = [task EXCEPT ![d].friendly_msg = friendly_msg]

\* lines 337-357: except Exception
HandleException(d) ==
  /\ pc[d] = "except_exception"
  /\ FailUnexpected(d, Val(task[d].e), FriendlyOfException(Val(task[d].e)))
  /\ Goto(d, "update_failure")
  /\ UNCHANGED <<registry, request, progress, outcome, dirs>>
  /\ UNCHANGED <<arg, ret, stream>>

\* lines 326-333 and 360-368: self.update_state(state="FAILURE", ...) in an except
\* clause; if the call raises, that error ends the task
UpdateFailure(d) ==
  /\ pc[d] = "update_failure"
  /\ \/ /\ progress' = [progress EXCEPT ![d] =
              [state |-> "FAILURE", phase |-> "failed", status |-> "", progress |-> 0,
               error |-> Some(task[d].friendly_msg)]]
        /\ Goto(d, "raise")
        /\ UNCHANGED outcome
     \/ /\ outcome' = [outcome EXCEPT ![d] =
              [kind |-> "raised", type |-> ExcConnectionError, error |-> TxtConnectionRefused,
               summary |-> NULL]]
        /\ Goto(d, "ended")
        /\ UNCHANGED progress
  /\ UNCHANGED <<store, registry, request, task, now, dirs, hist>>
  /\ UNCHANGED <<arg, ret, stream>>

\* a faulty variant of RaiseFriendly: the failed task is put on the queue again
\* (self.retry) instead of ending
RaiseFriendlyRetry(d) ==
  /\ pc[d] = "raise"
  /\ outcome' = [outcome EXCEPT ![d] =
       [kind |-> "raised", type |-> ExcRuntimeError, error |-> task[d].friendly_msg,
        summary |-> NULL]]
  /\ progress' = [progress EXCEPT ![d].state = "RETRY",
                                  ![d].error = Some(task[d].friendly_msg)]
  /\ Goto(d, "queued")
  /\ UNCHANGED <<store, registry, request, task, now, dirs, hist>>
  /\ UNCHANGED <<arg, ret, stream>>

\* lines 335 and 370: raise RuntimeError(friendly_msg); Celery stores FAILURE with the
\* exception and acknowledges the message
RaiseFriendly(d) ==
  /\ pc[d] = "raise"
  /\ outcome' = [outcome EXCEPT ![d] =
       [kind |-> "raised", type |-> ExcRuntimeError, error |-> task[d].friendly_msg,
        summary |-> NULL]]
  /\ progress' = [progress EXCEPT ![d].state = "FAILURE",
                                  ![d].error = Some(task[d].friendly_msg)]
  /\ Goto(d, "ended")
  /\ UNCHANGED <<store, registry, request, task, now, dirs, hist>>
  /\ UNCHANGED <<arg, ret, stream>>

\* celery_app.conf: task_acks_late and task_reject_on_worker_lost. The worker process
\* running the task body is lost before the message is acknowledged: the message is
\* rejected and requeued, and the task body will start again from its first line
WorkerLost(d) ==
  /\ pc[d] \in RunningPcs
  /\ hist[d].crashes < MaxCrashes
  /\ task' = [task EXCEPT ![d] = NoTask]
  /\ hist' = [hist EXCEPT ![d].crashes = @ + 1,
                          ![d].lost_running = task[d].deployment /\ hist[d].terminals = 0]
  /\ Goto(d, "queued")
  /\ UNCHANGED <<store, registry, request, progress, outcome, now, dirs>>
  /\ UNCHANGED <<arg, ret, stream>>

Next ==
  \/ RegisterProvider
  \/ \E d \in DeploymentIds :
       \/ CreateRecord(d)
       \/ Enqueue(d)
       \/ EnqueueFails(d)
       \/ delete_deployment(d)
       \/ TaskStart(d)
       \/ UpdateInitializing(d)
       \/ LogInitializing(d)
       \/ CreateProvider(d)
       \/ LogProviderInitialized(d)
       \/ LogStarting(d)
       \/ UpdateValidating(d)
       \/ LogValidating(d)
       \/ UpdatePlanning(d)
       \/ LogPlanning(d)
       \/ UpdateApplying(d)
       \/ LogApplying(d)
       \/ InvokeDeploy(d)
       \/ MockDeploy(d)
       \/ TerraformConfig(d)
       \/ TerraformInit(d)
       \/ TerraformPlan(d)
       \/ TerraformApply(d)
       \/ TerraformOutput(d)
       \/ LogExecuted(d)
       \/ UpdateFinalizing(d)
       \/ LogFinalizing(d)
       \/ CommitCompleted(d)
       \/ UpdateSuccess(d)
       \/ TaskReturn(d)
       \/ HandleDeploymentError(d)
       \/ HandleException(d)
       \/ UpdateFailure(d)
       \/ RaiseFriendly(d)
       \/ WorkerLost(d)

Spec == Init /\ [][Next]_vars

----------------------------------------------------------------------------
(* The parameter merge of deploy_infrastructure on its own                 *)
(* (tasks/deployment_tasks.py:143, 161, 216-252)                           *)

\* the keys the merge reads or writes, besides subscription_id and location
MergeKeys == {"tags", "labels", "projectId", "project_id", "resource_group_name"}

\* the value a caller gives a key; every key has its own, so that a value can
\* be followed through the merge
MergeValue(k) ==
  CASE k = "tags" -> TxtProd
    [] k = "labels" -> TxtDev
    [] k = "projectId" -> TxtP1
    [] k = "project_id" -> TxtP2
    [] OTHER -> TxtRg2

\* provider_config of a request: with and without region, with and without project_id
MergeConfigs ==
  {[subscription_id |-> TxtSub1, region |-> TxtEastus],
   [subscription_id |-> TxtSub1],
   [subscription_id |-> TxtSub1, region |-> TxtEastus, project_id |-> TxtB1]}

MergeCalls ==
  {[provider_type |-> t, parameters |-> [k \in K |-> MergeValue(k)],
    provider_config |-> c, resource_group |-> TxtRg1] :
     t \in {TypeTerraformGcp, TypeGcp, TypeTerraformAzure, TypeBicep},
     K \in SUBSET MergeKeys, c \in MergeConfigs}

InitMerge ==
  /\ Constructed
  /\ arg \in {Some(c) : c \in MergeCalls}
  /\ ret = NULL

\* lines 143, 161 and 216-252 applied to one request
CallMerge ==
  /\ arg # NULL
  /\ ret = NULL
  /\ LET a == Val(arg)
     IN  ret' = Some(MergeParameters(provider_type_mapping(a.provider_type), a.parameters,
                                     a.provider_config, a.resource_group,
                                     Location(a.provider_config)))
  /\ UNCHANGED <<store, registry, pc, request, task, progress, outcome, now, dirs, hist, arg,
               stream>>

NextMerge == CallMerge

SpecMerge == InitMerge /\ [][NextMerge]_vars

----------------------------------------------------------------------------
(* The error classifier on its own (core/error_parser.py:273-339)          *)

\* pieces of tool output: seven that rules of ERROR_PATTERNS match, two that none does

FragQuota ==
  <<"Q", "u", "o", "t", "a", "E", "x", "c", "e", "e", "d", "e", "d", " ", "f", "o", "r", " ",
    "c", "o", "r", "e", "s">>

FragExists ==
  <<"b", "u", "c", "k", "e", "t", " ", "b", "1", " ", "a", "l", "r", "e", "a", "d", "y", " ",
    "e", "x", "i", "s", "t", "s">>

FragTimeout ==
  <<"t", "i", "m", "e", "o", "u", "t", " ", "w", "h", "i", "l", "e", " ", "w", "a", "i", "t",
    "i", "n", "g">>

FragDenied ==
  <<"A", "c", "c", "e", "s", "s", " ", "D", "e", "n", "i", "e", "d">>

FragCidr ==
  <<"I", "n", "v", "a", "l", "i", "d", " ", "C", "I", "D", "R", " ", "1", "0", ".", "0", ".",
    "0", ".", "0", "/", "3", "3">>

FragName ==
  <<"i", "n", "v", "a", "l", "i", "d", " ", "b", "u", "c", "k", "e", "t", " ", "n", "a", "m",
    "e">>

FragProject ==
  <<"p", "r", "o", "j", "e", "c", "t", " ", "p", "1", " ", "n", "o", "t", " ", "f", "o", "u",
    "n", "d">>

FragBoom ==
  <<"E", "r", "r", "o", "r", ":", " ", "e", "x", "i", "t", " ", "s", "t", "a", "t", "u", "s",
    " ", "1">>

FragPlain ==
  <<" ", " ", "t", "e", "r", "r", "a", "f", "o", "r", "m", " ", "c", "r", "a", "s", "h", "e",
    "d", " ", " ">>

ParseFragments ==
  {FragQuota, FragExists, FragTimeout, FragDenied, FragCidr, FragName, FragProject, FragBoom, FragPlain}

\* the texts handed to the classifier: the empty text, one piece, or two pieces on
\* two lines (a pattern with .* may then match across the lines)
ParseTexts ==
  {<<>>} \cup ParseFragments
         \cup {a \o TxtNewline \o b : a \in ParseFragments, b \in ParseFragments}

InitParse ==
  /\ Constructed
  /\ arg \in {Some([error_message |-> t]) : t \in ParseTexts}
  /\ ret = NULL

\* parse_terraform_error(error_message) returns
CallParse ==
  /\ arg # NULL
  /\ ret = NULL
  /\ ret' = Some(parse_terraform_error(Val(arg).error_message))
  /\ UNCHANGED <<store, registry, pc, request, task, progress, outcome, now, dirs, hist, arg,
               stream>>

NextParse == CallParse

SpecParse == InitParse /\ [][NextParse]_vars

----------------------------------------------------------------------------
(* Readers of the record store (api/routers/deployments.py)                *)

\* duration of get_deployment_status and get_deployment_details (lines 197-200 and
\* 372-375), read at time utcnow: None while started_at is unset
duration_seconds(deployment, utcnow) ==
  IF deployment.started_at = NULL THEN NULL
  ELSE LET end_time == IF deployment.completed_at # NULL
                         THEN Val(deployment.completed_at) ELSE utcnow
       IN  Some(end_time - Val(deployment.started_at))

----------------------------------------------------------------------------
(* Log stream: stream_deployment_logs (api/routers/deployments.py:234-291) *)

\* range(300) of line 246, scaled for the model: the number of polls of one stream
PollLimit == 3

Event(type, line, value) == [type |-> type, line |-> line, value |-> value]

NoLine == <<>>

\* "data: ..." events are yielded to the client in this order
Yield(d, events, next) ==
  [stream[d] EXCEPT !.events = @ \o events, !.pc = next]

\* the row as the session of the stream reads it: its committed log lines
CommittedLines(d) == IF store[d].logs = NULL THEN <<>> ELSE Val(store[d].logs)

IsLine(entry) == entry.kind # "blank"

\* lines 250-254: the lines of logs[last_log_length:] that are not blank, one log
\* event each (the offset is counted in chunks of the blob, each of which ends
\* with a newline; a traceback chunk is carried as one event)
NewLogEvents(lines, last_log_length) ==
  IF Len(lines) > last_log_length
    THEN LET new_logs == SelectSeq(SubSeq(lines, last_log_length + 1, Len(lines)), IsLine)
         IN  [i \in DOMAIN new_logs |-> Event("log", new_logs[i], 0)]
    ELSE <<>>

\* lines 258-267: the progress reported while the row is RUNNING: that of the task's
\* meta when AsyncResult(...).info is a dict holding one, else min(30 + 2i, 90)
ProgressEvents(d, iteration) ==
  IF store[d].status # "RUNNING" THEN <<>>
  ELSE LET estimate == IF 30 + iteration * 2 < 90 THEN 30 + iteration * 2 ELSE 90
       IN  <<Event("progress", NoLine,
                   IF store[d].celery_task_id # NULL /\ progress[d].state = "RUNNING"
                     THEN progress[d].progress ELSE estimate)>>

\* lines 270-275: the event that ends the loop
TerminalEvents(d) ==
  IF store[d].status = "COMPLETED" THEN <<Event("complete", NoLine, 0)>>
  ELSE IF store[d].status = "FAILED" THEN <<Event("error", NoLine, 0)>>
  ELSE <<>>

DoneEvent == Event("done", NoLine, 0)

\* lines 238-244: the generator starts; a missing row ends it with an error event
StreamOpen(d) ==
  /\ stream[d].pc = "none"
  /\ pc[d] # "idle"
  /\ stream' = [stream EXCEPT ![d] =
       IF d \in DOMAIN store
         THEN Yield(d, <<Event("status", NoLine, 0)>>, "polling")
         ELSE Yield(d, <<Event("error", NoLine, 0)>>, "ended")]
  /\ UNCHANGED <<store, registry, pc, request, task, progress, outcome, now, dirs, hist,
                 arg, ret>>

\* lines 246-281: one iteration of the loop. db.refresh raises when the row has been
\* deleted, and the except clause ends the generator with an error event; the poll
\* that sees COMPLETED or FAILED, and the last one of the range, end with 'done'
StreamPoll(d) ==
  /\ stream[d].pc = "polling"
  /\ stream[d].iteration < PollLimit
  /\ stream' = [stream EXCEPT ![d] =
       IF d \notin DOMAIN store
         THEN Yield(d, <<Event("error", NoLine, 0)>>, "ended")
         ELSE LET lines == CommittedLines(d)
                  logs == NewLogEvents(lines, stream[d].last_log_length)
                  seen == logs \o ProgressEvents(d, stream[d].iteration) \o TerminalEvents(d)
                  over == TerminalEvents(d) # <<>> \/ stream[d].iteration + 1 = PollLimit
              IN  [stream[d] EXCEPT
                     !.events = @ \o seen \o (IF over THEN <<DoneEvent>> ELSE <<>>),
                     !.last_log_length = IF Len(lines) > @ THEN Len(lines) ELSE @,
                     !.iteration = @ + 1,
                     !.pc = IF over THEN "ended" ELSE "polling"]]
  /\ UNCHANGED <<store, registry, pc, request, task, progress, outcome, now, dirs, hist,
                 arg, ret>>

\* provider types of the requests a stream is followed on: bicep is mapped to the
\* tag azure, and neither azure nor an unregistered tag is in ProviderFactory._providers
StreamTypes == {TypeBicep, TypeCustom}

\* the endpoint has committed the row of one request and enqueued its task; no
\* stream is open yet
InitStream ==
  /\ now = 1
  /\ registry = << <<TypeTerraformAzure, "TerraformProvider">>,
                   <<TypeTerraformGcp, "TerraformProvider">>,
                   <<TypeGcp, "TerraformProvider">>,
                   <<TypeTerraform, "TerraformProvider">> >>
  /\ \E provider_type \in StreamTypes : \E parameters \in ParameterChoices(provider_type) :
       /\ store = [d \in DeploymentIds |-> Deployment(d, provider_type, parameters)]
       /\ request = [d \in DeploymentIds |-> Some(
            [deployment_id |-> d, provider_type |-> provider_type,
             template_path |-> TxtMainTf, parameters |-> parameters,
             resource_group |-> TxtRg1,
             provider_config |->
               [subscription_id |-> TxtSub1, region |-> TxtEastus,
                cloud_platform |-> TypeAzure]])]
  /\ pc = [d \in DeploymentIds |-> "queued"]
  /\ task = [d \in DeploymentIds |-> NoTask]
  /\ progress = [d \in DeploymentIds |-> NoProgress]
  /\ outcome = [d \in DeploymentIds |-> NoOutcome]
  /\ dirs = 0
  /\ hist = [d \in DeploymentIds |-> NoHist]
  /\ stream = [d \in DeploymentIds |-> NoStream]
  /\ arg = NULL
  /\ ret = NULL

\* the steps of the task body such a request can take, the deletion of its row, and
\* its log stream
NextStream ==
  \E d \in DeploymentIds :
    \/ delete_deployment(d)
    \/ TaskStart(d)
    \/ UpdateInitializing(d)
    \/ LogInitializing(d)
    \/ CreateProvider(d)
    \/ HandleDeploymentError(d)
    \/ HandleException(d)
    \/ UpdateFailure(d)
    \/ RaiseFriendly(d)
    \/ WorkerLost(d)
    \/ StreamOpen(d)
    \/ StreamPoll(d)

SpecStream == InitStream /\ [][NextStream]_vars


----------------------------------------------------------------------------
(* Two dispatches with different deployment ids on the worker pool         *)

\* the two deployment ids
PairIds == {DeploymentId1, DeploymentId2}

\* the request of each of the two: the first is about to be taken from the queue, the
\* second was taken earlier and has come to its commit of COMPLETED
PairType(d) == IF d = DeploymentId1 THEN TypeTerraformGcp ELSE TypeTerraformAzure

\* deploy_task.delay(...) of deployments.py:129-143 for the record committed at
\* lines 111-122
Request(d, provider_type, parameters) ==
  [deployment_id |-> d, provider_type |-> provider_type,
   template_path |-> TxtMainTf, parameters |-> parameters,
   resource_group |-> TxtRg1,
   provider_config |->
     [subscription_id |-> TxtSub1, region |-> TxtEastus,
      cloud_platform |-> IF provider_type \in {TypeGcp, TypeTerraformGcp}
                           THEN TypeGcp ELSE TypeAzure]]

\* the lines deployment_tasks.py:111-276 have committed when no call failed, for a
\* task that started at time started_at
LogsAtCommit(r, started_at) ==
  <<[log_entry("INFO", MsgStarting \o r.deployment_id, "initialization", <<>>)
       EXCEPT !.ts = started_at],
    log_entry("INFO", MsgInitializing1 \o provider_type_mapping(r.provider_type)
                        \o MsgInitializing2, "initialization", <<>>),
    log_entry("INFO", MsgProviderInitialized, "initialization", <<>>),
    log_entry("INFO", MsgStartingTo \o Location(r.provider_config), "initialization",
              JsonLocation1 \o Location(r.provider_config) \o JsonLocation2
                \o r.resource_group \o JsonLocation3),
    log_entry("INFO", MsgResourceGroup \o r.resource_group, "initialization", <<>>),
    log_entry("INFO", MsgTemplate \o r.template_path, "initialization", <<>>),
    BlankLine, log_entry("INFO", MsgPhase1, "validating", <<>>),
    log_entry("INFO", MsgValidating, "validating", <<>>),
    BlankLine, log_entry("INFO", MsgPhase2, "planning", <<>>),
    log_entry("INFO", MsgPlanning, "planning", <<>>),
    BlankLine, log_entry("INFO", MsgPhase3, "applying", <<>>),
    log_entry("INFO", MsgApplying, "applying", <<>>),
    log_entry("INFO", MsgExecuted, "applying", <<>>),
    BlankLine, log_entry("INFO", MsgPhase4, "finalizing", <<>>),
    log_entry("INFO", MsgCollecting, "finalizing", <<>>)>>

\* the row of a task that started at started_at and has come to line 279
RowAtCommit(r, started_at) ==
  [deployment_id |-> r.deployment_id, provider_type |-> r.provider_type,
   status |-> "RUNNING", created_at |-> started_at, started_at |-> Some(started_at),
   completed_at |-> NULL, parameters |-> r.parameters, outputs |-> NULL,
   error_message |-> NULL, logs |-> Some(LogsAtCommit(r, started_at)),
   celery_task_id |-> Some(TaskId(r.deployment_id))]

\* the locals of that task body: the provider made by create_provider in the working
\* directory working_dir, the merged parameters, the configuration directory and the
\* result of provider.deploy with the outputs terraform output gave
TaskAtCommit(r, working_dir, outputs) ==
  [NoTask EXCEPT
     !.deployment = TRUE,
     !.actual_provider_type = provider_type_mapping(r.provider_type),
     !.provider = Some([class |-> "TerraformProvider",
                        cloud_platform |-> r.provider_config.cloud_platform,
                        working_dir |-> working_dir,
                        files |-> FilesAfter(ConfigSteps(r.provider_config.cloud_platform, FALSE), 5)]),
     !.deployment_parameters =
        Some(MergeParameters(provider_type_mapping(r.provider_type), r.parameters,
                             r.provider_config, r.resource_group,
                             Location(r.provider_config))),
     !.config_dir = Some(working_dir),
     !.result = Some([has_outputs |-> TRUE, outputs |-> Some(outputs)])]

\* what that task body has done so far
HistAtCommit ==
  [NoHist EXCEPT !.starts = 1, !.creates = 1, !.mkdtemps = 1, !.deploys = 1,
                 !.inits = 1, !.plans = 1, !.applies = 1, !.tf_outputs = 1,
                 !.runs = [i \in 1..4 |->
                            [command |-> <<"inits", "plans", "applies", "tf_outputs">>[i],
                             raised |-> FALSE, returncode |-> 0]]]

\* both requests were accepted; the task of the second started at time 1, has deployed
\* in working directory 1 and has come to line 279; the task of the first is in the queue
InitPair ==
  /\ now = 2
  /\ registry = << <<TypeTerraformAzure, "TerraformProvider">>,
                   <<TypeTerraformGcp, "TerraformProvider">>,
                   <<TypeGcp, "TerraformProvider">>,
                   <<TypeTerraform, "TerraformProvider">> >>
  /\ \E parameters \in [PairIds -> UNION {ParameterChoices(PairType(d)) : d \in PairIds}] :
     \E outputs \in OutputChoices :
       /\ \A d \in PairIds : parameters[d] \in ParameterChoices(PairType(d))
       /\ request = [d \in PairIds |-> Some(Request(d, PairType(d), parameters[d]))]
       /\ store = [d \in PairIds |->
                     IF d = DeploymentId1 THEN Deployment(d, PairType(d), parameters[d])
                     ELSE RowAtCommit(Request(d, PairType(d), parameters[d]), 1)]
       /\ task = [d \in PairIds |->
                    IF d = DeploymentId1 THEN NoTask
                    ELSE TaskAtCommit(Request(d, PairType(d), parameters[d]), 1, outputs)]
  /\ pc = [d \in PairIds |-> IF d = DeploymentId1 THEN "queued" ELSE "commit_completed"]
  /\ progress = [d \in PairIds |->
                   IF d = DeploymentId1 THEN NoProgress
                   ELSE Meta("RUNNING", "finalizing", "Retrieving outputs and finalizing", 90)]
  /\ outcome = [d \in PairIds |-> NoOutcome]
  /\ dirs = 1
  /\ hist = [d \in PairIds |-> IF d = DeploymentId1 THEN NoHist ELSE HistAtCommit]
  /\ stream = [d \in PairIds |-> NoStream]
  /\ arg = NULL
  /\ ret = NULL

\* the steps of the two task bodies, in any interleaving
NextPair ==
  \E d \in PairIds :
    \/ TaskStart(d)
    \/ UpdateInitializing(d)
    \/ LogInitializing(d)
    \/ CreateProvider(d)
    \/ LogProviderInitialized(d)
    \/ LogStarting(d)
    \/ UpdateValidating(d)
    \/ LogValidating(d)
    \/ UpdatePlanning(d)
    \/ LogPlanning(d)
    \/ UpdateApplying(d)
    \/ LogApplying(d)
    \/ InvokeDeploy(d)
    \/ TerraformConfig(d)
    \/ TerraformInit(d)
    \/ TerraformPlan(d)
    \/ TerraformApply(d)
    \/ TerraformOutput(d)
    \/ LogExecuted(d)
    \/ UpdateFinalizing(d)
    \/ LogFinalizing(d)
    \/ CommitCompleted(d)
    \/ UpdateSuccess(d)
    \/ TaskReturn(d)
    \/ HandleDeploymentError(d)
    \/ HandleException(d)
    \/ UpdateFailure(d)
    \/ RaiseFriendly(d)

SpecPair == InitPair /\ [][NextPair]_vars

----------------------------------------------------------------------------
(* strip_ansi_codes called on its own (tasks/deployment_tasks.py:23-38)     *)

\* the longest text handed to strip_ansi_codes
MaxTextLen == 5

\* one character of each kind: the escape character, the bracket, a digit, a letter
\* (the one that ends a colour sequence), a box-drawing character, the space and the
\* newline
StripAlphabet == {ESC, "[", "0", "m", "U+2502", " ", "\n"}

StripTexts == UNION {[1..n -> StripAlphabet] : n \in 0..MaxTextLen}

InitStrip ==
  /\ Constructed
  /\ arg \in {Some([text |-> t]) : t \in StripTexts}
  /\ ret = NULL

\* strip_ansi_codes(text) returns
CallStrip ==
  /\ arg # NULL
  /\ ret = NULL
  /\ ret' = Some(<<strip_ansi_codes(Val(arg).text)>>)
  /\ UNCHANGED <<store, registry, pc, request, task, progress, outcome, now, dirs, hist, arg,
               stream>>

\* strip_ansi_codes is called on what it returned
CallStripAgain ==
  /\ ret # NULL
  /\ Len(Val(ret)) = 1
  /\ ret' = Some(Append(Val(ret), strip_ansi_codes(Val(ret)[1])))
  /\ UNCHANGED <<store, registry, pc, request, task, progress, outcome, now, dirs, hist, arg,
               stream>>

NextStrip == CallStrip \/ CallStripAgain

SpecStrip == InitStrip /\ [][NextStrip]_vars

----------------------------------------------------------------------------
(* Properties                                                              *)

\* the log lines of the row of d (none while logs is NULL)
Logs(d) == IF store[d].logs = NULL THEN <<>> ELSE Val(store[d].logs)

IsPrefix(a, b) == Len(a) <= Len(b) /\ SubSeq(b, 1, Len(a)) = a

\* the place of a phase in initialization < validating < planning < applying <
\* finalizing < (completed | failed)
PhaseRank(phase) ==
  CASE phase = "INITIALIZATION" -> 1
    [] phase = "VALIDATING" -> 2
    [] phase = "PLANNING" -> 3
    [] phase = "APPLYING" -> 4
    [] phase = "FINALIZING" -> 5
    [] OTHER -> 6

HasPhase(log, phase) == \E i \in DOMAIN log : log[i].kind = "entry" /\ log[i].phase = phase

\* the task body of d has caught an exception that create_provider or deploy raised,
\* has committed its handler's row update, and the row is there
ProviderFailureHandled(d) ==
  /\ d \in DOMAIN store
  /\ task[d].deployment
  /\ pc[d] \in {"update_failure", "raise", "ended"}
  /\ task[d].e # NULL
  /\ Val(task[d].e).origin \in {"create_provider", "deploy"}

\* C1: the status of a row changes only along PENDING -> RUNNING, RUNNING -> COMPLETED
\* and RUNNING -> FAILED (stated for the runs in which no worker is lost).
C1_StatusTransitions ==
  [][\A d \in DeploymentIds :
       (/\ hist[d].crashes = 0
        /\ d \in DOMAIN store /\ d \in DOMAIN store'
        /\ store'[d].status # store[d].status)
         => <<store[d].status, store'[d].status>> \in
              {<<"PENDING", "RUNNING">>, <<"RUNNING", "COMPLETED">>, <<"RUNNING", "FAILED">>}]_vars

\* C2: in every committed row started_at is set iff the status is not PENDING, and
\* completed_at is set iff the status is COMPLETED or FAILED.
C2_Timestamps ==
  \A d \in DOMAIN store :
    /\ store[d].started_at # NULL <=> store[d].status # "PENDING"
    /\ store[d].completed_at # NULL <=> store[d].status \in {"COMPLETED", "FAILED"}

\* C3: in every committed row COMPLETED implies outputs non-null and error_message
\* null, FAILED implies error_message non-null, error_message non-null implies FAILED,
\* and non-empty outputs imply COMPLETED (stated for the runs in which no worker is lost).
C3_OutputsAndErrorMessage ==
  \A d \in DOMAIN store :
    hist[d].crashes = 0 =>
    /\ store[d].status = "COMPLETED" =>
         store[d].outputs # NULL /\ store[d].error_message = NULL
    /\ store[d].status = "FAILED" => store[d].error_message # NULL
    /\ store[d].error_message # NULL => store[d].status = "FAILED"
    /\ (store[d].outputs # NULL /\ DOMAIN Val(store[d].outputs) # {}) =>
         store[d].status = "COMPLETED"

\* C4: a run of the task body whose row exists and whose worker is never lost has, when
\* it ends, committed exactly one terminal status, with completed_at set, and has
\* returned the summary on COMPLETED or raised on FAILED.
C4_OneTerminalCommit ==
  \A d \in DeploymentIds :
    (pc[d] = "ended" /\ task[d].deployment /\ hist[d].crashes = 0 /\ d \in DOMAIN store) =>
      /\ hist[d].terminals = 1
      /\ store[d].completed_at # NULL
      /\ \/ store[d].status = "COMPLETED" /\ outcome[d].kind = "returned"
         \/ store[d].status = "FAILED" /\ outcome[d].kind = "raised"

C6_ClassifiedErrorMessage ==
  \A d \in DeploymentIds :
    (/\ ProviderFailureHandled(d)
     /\ Val(task[d].e).type = ExcDeploymentError
     /\ Val(task[d].e).text = TxtQuota) =>
      /\ store[d].status = "FAILED"
      /\ store[d].error_message # NULL
      /\ Contains(Val(store[d].error_message), TxtQuotaTitle)
      /\ store[d].error_message # Some(TxtQuota)

C9_LogsAppendOnly ==
  [][\A d \in DeploymentIds :
       (d \in DOMAIN store /\ d \in DOMAIN store') =>
         IsPrefix(IF store[d].logs = NULL THEN <<>> ELSE Val(store[d].logs),
                  IF store'[d].logs = NULL THEN <<>> ELSE Val(store'[d].logs))]_vars

\* C10: the log lines of a row are in the order of their phases, and lines of phase
\* COMPLETED and of phase FAILED are never both there (stated for the runs in which no
\* worker is lost).
C10_PhaseOrder ==
  \A d \in DOMAIN store :
    hist[d].crashes = 0 =>
    /\ \A i \in DOMAIN Logs(d) : \A j \in DOMAIN Logs(d) :
         (i < j /\ Logs(d)[i].kind = "entry" /\ Logs(d)[j].kind = "entry") =>
           PhaseRank(Logs(d)[i].phase) <= PhaseRank(Logs(d)[j].phase)
    /\ ~(HasPhase(Logs(d), "COMPLETED") /\ HasPhase(Logs(d), "FAILED"))

\* the run of the task body of d (running or ended, its worker not lost) has asked the
\* factory for a tag that is not registered
UnknownTagRequested(d) ==
  /\ pc[d] \in RunningPcs \cup {"ended"}
  /\ hist[d].creates = 1
  /\ ToLower(task[d].actual_provider_type) \notin Tags(registry)

\* C11: a provider_type that is not registered makes create_provider raise a
\* configuration error: no provider object and no working directory is made, the line
\* "Provider initialized successfully" is not written, deploy is not called, and once
\* the handler has run the row is FAILED.
C11_UnknownTagFailsFast ==
  \A d \in DeploymentIds :
    UnknownTagRequested(d) =>
      /\ task[d].e # NULL
      /\ Val(task[d].e).type = ExcProviderConfigurationError
      /\ Val(task[d].e).origin = "create_provider"
      /\ StartsWith(Val(task[d].e).text, TxtUnsupported1)
      /\ task[d].provider = NULL
      /\ hist[d].mkdtemps = 0
      /\ hist[d].deploys = 0 /\ hist[d].inits = 0
      /\ d \in DOMAIN store =>
           /\ \A i \in DOMAIN Logs(d) : Logs(d)[i].message # MsgProviderInitialized
           /\ store[d].status # "COMPLETED"
           /\ (task[d].deployment /\ pc[d] \in {"update_failure", "raise", "ended"}) =>
                store[d].status = "FAILED"

\* a run on an existing row that ended after asking for a tag that is not registered
C11_Witness ==
  \E d \in DOMAIN store :
    /\ UnknownTagRequested(d)
    /\ pc[d] = "ended"
    /\ task[d].deployment
    /\ store[d].status = "FAILED"

\* the run of the task body of d (running or ended, its worker not lost) has had a
\* terraform command exceed the ten minutes
TimedOut(d) ==
  /\ pc[d] \in RunningPcs \cup {"ended"}
  /\ task[d].e # NULL
  /\ Val(task[d].e).origin = "deploy"
  /\ Val(task[d].e).text = TxtDeployFailed \o TxtTimedOut

\* the title of the rule of ERROR_PATTERNS whose pattern names the timeout
TxtConnectionFailed ==
  <<"C", "o", "n", "n", "e", "c", "t", "i", "o", "n", " ", "F", "a", "i", "l", "e", "d">>

\* C12: a terraform command that exceeds the ten minutes makes deploy raise a
\* provisioning error; no terraform command is run after it; no COMPLETED status is
\* committed; and once the handler has run the row is FAILED with completed_at set and
\* an error_message that is the classifier's text for a timeout (it carries the title of
\* the timeout rule) and not the raw text.
C12_TimeoutClassified ==
  [][\A d \in DeploymentIds :
       TimedOut(d)' =>
         /\ Val(task'[d].e).type = ExcDeploymentError
         /\ TimedOut(d) =>
              /\ hist'[d].inits = hist[d].inits
              /\ hist'[d].plans = hist[d].plans
              /\ hist'[d].applies = hist[d].applies
         /\ (d \in DOMAIN store' /\ task'[d].deployment) =>
              /\ store'[d].status # "COMPLETED"
              /\ pc'[d] \in {"update_failure", "raise", "ended"} =>
                   /\ store'[d].status = "FAILED"
                   /\ store'[d].completed_at # NULL
                   /\ store'[d].error_message # NULL
                   /\ Contains(Val(store'[d].error_message), TxtConnectionFailed)
                   /\ store'[d].error_message # Some(Val(task'[d].e).text)]_vars

\* the terraform commands in the order deploy runs them
CommandOrder == <<"inits", "plans", "applies", "tf_outputs">>

\* the run of the task body of d (running or ended, its worker not lost) has had init,
\* plan or apply exit with a nonzero code
ExitedNonzero(d) ==
  /\ pc[d] \in RunningPcs \cup {"ended"}
  /\ \E i \in DOMAIN hist[d].runs :
       /\ hist[d].runs[i].command # "tf_outputs"
       /\ ~hist[d].runs[i].raised
       /\ hist[d].runs[i].returncode # 0

ConfigFailed(d) ==
  /\ pc[d] \in RunningPcs \cup {"ended"}
  /\ task[d].provider # NULL
  /\ Val(task[d].provider).class = "TerraformProvider"
  /\ task[d].e # NULL
  /\ Val(task[d].e).origin = "deploy"
  /\ task[d].config_dir = NULL

\* C14: when a step of config materialization fails, deploy raises a provisioning
\* error and no terraform command is run in that run of the task body; a terraform
\* command is only ever run on a configuration directory that holds main.tf and
\* terraform.tfvars, written completely.
C14_NoRunOnPartialConfig ==
  \A d \in DeploymentIds :
    /\ ConfigFailed(d) =>
         /\ Val(task[d].e).type = ExcDeploymentError
         /\ StartsWith(Val(task[d].e).text, TxtDeployFailed)
         /\ hist[d].runs = <<>>
         /\ hist[d].inits = 0 /\ hist[d].plans = 0 /\ hist[d].applies = 0
         /\ task[d].result = NULL
    /\ (pc[d] \in RunningPcs \cup {"ended"} /\ hist[d].runs # <<>>) =>
         /\ task[d].config_dir # NULL
         /\ {"main.tf", "terraform.tfvars"} \subseteq Val(task[d].provider).files

\* a run that ended after main.tf was written and the write of terraform.tfvars failed
C14_Witness ==
  \E d \in DeploymentIds :
    /\ ConfigFailed(d)
    /\ pc[d] = "ended"
    /\ Val(task[d].provider).files = {"main.tf"}
    /\ hist[d].runs = <<>>

\* the run of the task body of d, on an existing row and with no worker lost, in which
\* deploy has returned a result
DeployReturned(d) ==
  /\ pc[d] \in RunningPcs \cup {"ended"}
  /\ hist[d].crashes = 0
  /\ task[d].deployment
  /\ d \in DOMAIN store
  /\ task[d].result # NULL

\* C15: when deploy has returned a result, the task commits COMPLETED with completed_at
\* set and outputs = the result's outputs, then publishes progress 100 / SUCCESS, and
\* returns the summary with the dispatched id and the outputs stored on the row: a run
\* that has ended has done all of this, and the row stays as committed.
C15_SuccessIsCommittedAndReturned ==
  \A d \in DeploymentIds :
    (DeployReturned(d) /\ pc[d] \in {"update_success", "return", "ended"}) =>
      /\ store[d].status = "COMPLETED"
      /\ store[d].completed_at # NULL
      /\ store[d].outputs = OutputsOf(Val(task[d].result))
      /\ pc[d] \in {"return", "ended"} =>
           progress[d].state = "SUCCESS" /\ progress[d].progress = 100
      /\ pc[d] = "ended" =>
           /\ outcome[d].kind = "returned"
           /\ Val(outcome[d].summary).deployment_id = d
           /\ Val(outcome[d].summary).status = "completed"
           /\ Val(outcome[d].summary).phase = "completed"
           /\ Val(outcome[d].summary).outputs = store[d].outputs

\* the run of the task body of d (running or ended, its worker not lost) found no row
MissingRecordRun(d) ==
  /\ pc[d] \in RunningPcs \cup {"ended"}
  /\ ~task[d].deployment

\* C16 (as claimed): a run that found no row writes nothing to the table, and ends by
\* returning the summary or by raising RuntimeError(friendly message).
C16_ReturnsOrRaisesFriendly ==
  [][\A d \in DeploymentIds :
       (MissingRecordRun(d)' /\ pc'[d] = "ended") =>
         /\ d \notin DOMAIN store'
         /\ \/ outcome'[d].kind = "returned" /\ outcome'[d].summary # NULL
            \/ /\ outcome'[d].kind = "raised"
               /\ outcome'[d].type = ExcRuntimeError
               /\ outcome'[d].error = task'[d].friendly_msg]_vars

\* C16 (amended): a run that found no row creates no row and writes nothing to the
\* table; the only exceptions it meets are those of create_provider, deploy and
\* update_state; it publishes its progress; and it ends by returning the summary with
\* the dispatched id, or by raising RuntimeError(friendly message) with FAILURE
\* published, or, when publishing FAILURE itself raised, by raising that error.
C16_MissingRecordTolerated ==
  [][\A d \in DeploymentIds :
       (MissingRecordRun(d) \/ MissingRecordRun(d)') =>
         /\ d \notin DOMAIN store'
         /\ pc[d] \in RunningPcs => store' = store
         /\ task'[d].e # NULL =>
              Val(task'[d].e).origin \in {"create_provider", "deploy", "update_state"}
         /\ (MissingRecordRun(d)' /\ hist'[d].deploys = 1) => task'[d].provider # NULL
         /\ (MissingRecordRun(d)' /\ pc'[d] = "ended") =>
              \/ /\ outcome'[d].kind = "returned"
                 /\ Val(outcome'[d].summary).deployment_id = d
                 /\ hist'[d].deploys = 1
                 /\ progress'[d].state = "SUCCESS"
              \/ /\ outcome'[d].kind = "raised"
                 /\ outcome'[d].type = ExcRuntimeError
                 /\ outcome'[d].error = task'[d].friendly_msg
                 /\ progress'[d].state = "FAILURE"
                 /\ progress'[d].error = Some(task'[d].friendly_msg)
              \/ /\ outcome'[d].kind = "raised"
                 /\ outcome'[d].type = ExcConnectionError
                 /\ task'[d].e # NULL]_vars

\* a run that found no row has called deploy and has ended returning the summary
C16_Witness ==
  \E d \in DeploymentIds :
    /\ MissingRecordRun(d)
    /\ pc[d] = "ended"
    /\ d \notin DOMAIN store
    /\ hist[d].deploys = 1
    /\ outcome[d].kind = "returned"
----------------------------------------------------------------------------
(* Parameter merge, progress ordering, classifier, stripped texts          *)

\* a merge call for a GCP provider type has returned
GcpMerged ==
  /\ arg # NULL
  /\ ret # NULL
  /\ "parameters" \in DOMAIN Val(arg)
  /\ Val(arg).provider_type \in {TypeTerraformGcp, TypeGcp}

\* C17: for a GCP provider type and every caller parameter mapping, the
\* parameters handed to deploy contain none of the keys tags, projectId and
\* resource_group_name; a caller's tags value arrives under labels and a
\* caller's projectId value arrives under project_id
C17_GcpParametersRenamed ==
  GcpMerged =>
    LET parameters == Val(arg).parameters
        handed == Val(ret)
    IN  /\ DOMAIN handed \cap {"tags", "projectId", "resource_group_name"} = {}
        /\ "tags" \in DOMAIN parameters =>
             "labels" \in DOMAIN handed /\ handed["labels"] = parameters["tags"]
        /\ "projectId" \in DOMAIN parameters =>
             "project_id" \in DOMAIN handed /\ handed["project_id"] = parameters["projectId"]

\* the phases that have a log header, in the order of the task body
HeaderPhases == <<"validating", "planning", "applying", "finalizing">>

PhaseHeader(i) == <<MsgPhase1, MsgPhase2, MsgPhase3, MsgPhase4>>[i]

\* the committed log lines of the row of d that are the header of phase i
Headers(log, i) ==
  {j \in DOMAIN log : log[j].kind = "entry" /\ log[j].message = PhaseHeader(i)}

\* a status reader finds the progress of phase i published for d
Published(d, i) == progress[d].state = "RUNNING" /\ progress[d].phase = HeaderPhases[i]

\* a status reader finds, for a row that is there, the headers of all phases before i
EarlierHeadersCommitted(d, i) == \A k \in 1..(i - 1) : Headers(Logs(d), k) # {}

\* C18: for validating, planning, applying and finalizing, the progress of the phase
\* is published before the commit that adds the phase's log header, and that commit
\* comes before the next phase's progress is published; so a reader that observes
\* the progress of a phase finds the headers of all earlier phases committed in the row
C18_ProgressBeforeHeader ==
  /\ [](\A d \in DOMAIN store :
          /\ \A i \in 1..4 : Published(d, i) => EarlierHeadersCommitted(d, i)
          /\ progress[d].state = "SUCCESS" => EarlierHeadersCommitted(d, 5))
  /\ [][\A d \in DOMAIN store \cap DOMAIN store' : \A i \in 1..4 :
          /\ Cardinality(Headers(Logs(d)', i)) > Cardinality(Headers(Logs(d), i))
               => Published(d, i) /\ Published(d, i)'
          /\ (progress'[d] # progress[d]
                /\ \/ i < 4 /\ Published(d, i + 1)'
                   \/ i = 4 /\ progress'[d].state = "SUCCESS")
               => Headers(Logs(d), i) # {} /\ Headers(Logs(d), i)' # {}]_vars

\* the progress of finalizing is published on a row whose run has not yet
\* committed the finalizing header
C18_Witness ==
  \E d \in DOMAIN store :
    /\ pc[d] = "log_finalizing"
    /\ Published(d, 4)
    /\ EarlierHeadersCommitted(d, 4)
    /\ Headers(Logs(d), 4) = {}

\* a call of the classifier has returned
Parsed ==
  /\ arg # NULL
  /\ ret # NULL
  /\ "error_message" \in DOMAIN Val(arg)

\* re.search of rule r finds its pattern in the text
RuleMatches(r, text) == Search(ERROR_PATTERNS[r].pattern, text)

\* the descriptor carries the title, message and solution of rule r
DescriptorOfRule(descriptor, r) ==
  /\ descriptor.title = ERROR_PATTERNS[r].title
  /\ descriptor.message = ERROR_PATTERNS[r].message
  /\ descriptor.solution = ERROR_PATTERNS[r].solution

\* a descriptor is returned for the text, and it is that of the first rule in the
\* order of ERROR_PATTERNS that matches
FirstMatchWins(text, descriptor) ==
  /\ {"title", "message", "solution"} \subseteq DOMAIN descriptor
  /\ \A r \in DOMAIN ERROR_PATTERNS :
       (RuleMatches(r, text) /\ \A q \in 1..(r - 1) : ~RuleMatches(q, text))
         => DescriptorOfRule(descriptor, r)

\* the generic descriptor, whose message is the extracted key error line
GenericDescriptor(text, descriptor) ==
  /\ descriptor.title = TxtDeploymentError
  /\ descriptor.message = _extract_key_error(text)
  /\ descriptor.solution = TxtReview

NoRuleMatches(text) == \A r \in DOMAIN ERROR_PATTERNS : ~RuleMatches(r, text)

\* C19 as stated: for every text, the empty one included, parse_terraform_error
\* returns a descriptor with title, message and solution; it is that of the first
\* rule of ERROR_PATTERNS that matches, and when no rule matches it is the generic
\* descriptor whose message is the extracted key error line
C19_FirstMatchOrGeneric ==
  Parsed =>
    /\ FirstMatchWins(Val(arg).error_message, Val(ret))
    /\ NoRuleMatches(Val(arg).error_message)
         => GenericDescriptor(Val(arg).error_message, Val(ret))

\* C19: for every text parse_terraform_error returns a descriptor with title,
\* message and solution; it is that of the first rule of ERROR_PATTERNS that matches;
\* when no rule matches a text that is not empty it is the generic descriptor whose
\* message is the extracted key error line; for the empty text it is the fixed
\* descriptor "Unknown Error"
C19_FirstMatchOrGenericOrUnknown ==
  Parsed =>
    /\ FirstMatchWins(Val(arg).error_message, Val(ret))
    /\ (NoRuleMatches(Val(arg).error_message) /\ Val(arg).error_message # <<>>)
         => GenericDescriptor(Val(arg).error_message, Val(ret))
    /\ Val(arg).error_message = <<>>
         => /\ Val(ret).title = TxtUnknownError
            /\ Val(ret).message = TxtUnexpected
            /\ Val(ret).solution = TxtTryAgain

\* the classifier has returned for a text that two rules match, with the
\* descriptor of the earlier one
C19_Witness ==
  /\ Parsed
  /\ \E r \in DOMAIN ERROR_PATTERNS : \E q \in DOMAIN ERROR_PATTERNS :
       /\ r < q
       /\ RuleMatches(r, Val(arg).error_message)
       /\ RuleMatches(q, Val(arg).error_message)
       /\ ERROR_PATTERNS[r].title # ERROR_PATTERNS[q].title
       /\ \A p \in 1..(r - 1) : ~RuleMatches(p, Val(arg).error_message)
       /\ Val(ret).title = ERROR_PATTERNS[r].title

\* the text holds a match of the escape pattern of strip_ansi_codes or one of its
\* box-drawing characters
HasAnsiOrBox(t) == \E i \in DOMAIN t : t[i] \in BoxChars \/ AnsiMatchEnd(t, i) # 0

\* the log lines a step appends to the row of d
Appended(d) == SubSeq(Logs(d)', Len(Logs(d)) + 1, Len(Logs(d)'))

\* an except clause of the task body of d is about to handle an error whose raw
\* text holds escape sequences or box-drawing characters, and the row is there
HandlesAnsiFailure(d) ==
  /\ d \in DOMAIN store
  /\ task[d].deployment
  /\ pc[d] \in {"except_deployment_error", "except_exception"}
  /\ HasAnsiOrBox(Val(task[d].e).text)

\* C20: when a failure's raw error text holds ANSI escape sequences or box-drawing
\* characters, neither the stored error_message nor any text the failure path
\* appends to the logs (the friendly summary and, for an unexpected error, the
\* traceback) holds an escape sequence or a box-drawing character
C20_StoredTextsStripped ==
  [][\A d \in DeploymentIds :
       (HandlesAnsiFailure(d) /\ pc'[d] = "update_failure") =>
         /\ ~HasAnsiOrBox(Val(store'[d].error_message))
         /\ \A i \in DOMAIN Appended(d) : ~HasAnsiOrBox(Appended(d)[i].message)]_vars

----------------------------------------------------------------------------
(* Status projection, accepting endpoint, log stream, isolation            *)

\* C21: the status projection reports duration_seconds as absent exactly when
\* started_at is unset; otherwise it is completed_at - started_at when completed_at
\* is set and now - started_at when it is not, and it is never negative
C21_DurationNonNegative ==
  \A d \in DOMAIN store :
    LET duration == duration_seconds(store[d], now)
    IN  /\ duration = NULL <=> store[d].started_at = NULL
        /\ duration # NULL =>
             /\ store[d].completed_at # NULL =>
                  Val(duration) = Val(store[d].completed_at) - Val(store[d].started_at)
             /\ store[d].completed_at = NULL =>
                  Val(duration) = now - Val(store[d].started_at)
             /\ Val(duration) >= 0

\* the step of d in which the endpoint puts the task on the queue
EnqueueStep(d) == pc[d] = "accepted" /\ pc'[d] = "queued"

\* the step of d in which a task body starts
TaskStartStep(d) == pc[d] = "queued" /\ pc'[d] = "update_initializing"

\* a row is new in the store as PENDING, and a row turns RUNNING only after it was
\* there with another status, PENDING when the task body starts for the first time
PendingBeforeRunning(d) ==
  /\ (d \notin DOMAIN store /\ d \in DOMAIN store') => store'[d].status = "PENDING"
  /\ (d \in DOMAIN store' /\ store'[d].status = "RUNNING"
        /\ (d \notin DOMAIN store \/ store[d].status # "RUNNING"))
       => /\ d \in DOMAIN store
          /\ hist[d].starts = 0 => store[d].status = "PENDING"

OpenedOnRecord(d) ==
  /\ stream[d].events # <<>>
  /\ stream[d].events[1].type = "status"

LastEvent(d) == stream[d].events[Len(stream[d].events)]

\* C23: a log stream opened on an existing deployment polls at most PollLimit times
\* (300 in the code), stops at the first poll that sees COMPLETED or FAILED, always
\* ends with a 'done' event, and never writes to the row or changes what the task
\* body does
C23_StreamBoundedEndsDone ==
  /\ [](\A d \in DeploymentIds :
          OpenedOnRecord(d) =>
            /\ stream[d].iteration <= PollLimit
            /\ stream[d].pc = "ended" => LastEvent(d).type = "done")
  /\ [][\A d \in DeploymentIds :
          stream'[d] # stream[d] =>
            /\ store' = store /\ pc' = pc /\ task' = task /\ progress' = progress
            /\ outcome' = outcome
            /\ (stream'[d].iteration > stream[d].iteration /\ d \in DOMAIN store
                  /\ store[d].status \in {"COMPLETED", "FAILED"})
                 => stream'[d].pc = "ended"]_vars


\* what a step changed of the dispatch d: its row, the position and the locals of its
\* task body (its provider and the files of its working directory among them), its
\* progress record and its result
Touched(d) ==
  \/ store'[d] # store[d]
  \/ pc'[d] # pc[d]
  \/ task'[d] # task[d]
  \/ progress'[d] # progress[d]
  \/ outcome'[d] # outcome[d]

\* the working directory of the provider of d, 0 when d has no provider that made one
WorkingDir(d) ==
  IF task[d].provider = NULL THEN 0 ELSE Val(task[d].provider).working_dir

\* the task body of d created its provider in this step
MadeProvider(d) == task[d].provider = NULL /\ task'[d].provider # NULL

\* the exception that ended the try block of d was one of those of lines 310
TypedFailure(d) == HandlerOf(Val(task[d].e).type) = "except_deployment_error"

\* the terminal columns of the row of d as the task body of d alone determines them:
\* from the exception it caught, the result of its deploy and its own commits
OwnTerminal(d) ==
  LET failed == task[d].e # NULL
  IN  [status |-> IF failed THEN "FAILED" ELSE "COMPLETED",
       error_message |->
         IF ~failed THEN NULL
         ELSE IF TypedFailure(d) THEN Some(strip_ansi_codes(task[d].friendly_msg))
         ELSE Some(task[d].friendly_msg),
       outputs |->
         IF hist[d].terminals = (IF failed THEN 2 ELSE 1)
           THEN OutputsOf(Val(task[d].result)) ELSE NULL,
       provider_type |-> Val(request[d]).provider_type,
       parameters |-> Val(request[d]).parameters]

\* the same columns of the committed row
TerminalColumns(row) ==
  [status |-> row.status, error_message |-> row.error_message, outputs |-> row.outputs,
   provider_type |-> row.provider_type, parameters |-> row.parameters]

MappedTypes == {TypeBicep, TypeArm, TypeTerraformAzure, TypeTerraformGcp}

\* C25: the registry of the provider factory holds the tags "azure", "terraform-aws",
\* "terraform-gcp" and "terraform-azure"; create_provider("azure", ...) returns a
\* provider; and the factory accepts every tag the provider-type mapping of the task
\* body gives for bicep, arm, terraform-azure and terraform-gcp
C25_FactoryHoldsMappedTags ==
  /\ {TypeAzure, TypeTerraformAws, TypeTerraformGcp, TypeTerraformAzure} \subseteq Tags(registry)
  /\ create_provider(registry, TypeAzure, TRUE, TRUE).ok
  /\ \A provider_type \in MappedTypes :
       /\ ToLower(provider_type_mapping(provider_type)) \in Tags(registry)
       /\ create_provider(registry, provider_type_mapping(provider_type), TRUE, TRUE).ok

\* the progress values of lines 126-300 in the order of the calls
ProgressOrder == <<10, 25, 40, 60, 90, 100>>

\* the place of a published progress value in that order, 0 before the first update
PlaceOf(value) ==
  IF \E i \in DOMAIN ProgressOrder : ProgressOrder[i] = value
    THEN CHOOSE i \in DOMAIN ProgressOrder : ProgressOrder[i] = value
    ELSE 0

\* a step of the running task body of d changes the published progress record
Publishes(d) == progress'[d] # progress[d] /\ hist'[d].starts = hist[d].starts

\* the steps of one run of the task body of d publish in order; success_needs_commit
\* tells whether the update of 100/SUCCESS has to find the COMPLETED commit made
PublishedInOrder(d, success_needs_commit) ==
  /\ Publishes(d) =>
       /\ progress[d].state # "FAILURE"
       /\ progress'[d].state \in {"RUNNING", "SUCCESS"} =>
            /\ PlaceOf(progress'[d].progress) = PlaceOf(progress[d].progress) + 1
            /\ progress'[d].progress >= progress[d].progress
            /\ (progress'[d].state = "SUCCESS") <=> (progress'[d].progress = 100)
       /\ progress'[d].phase = "finalizing" =>
            /\ hist[d].deploys = 1
            /\ task[d].result # NULL
       /\ (progress'[d].state = "SUCCESS" /\ success_needs_commit) =>
              /\ d \in DOMAIN store
              /\ store[d].status = "COMPLETED"
              /\ hist[d].terminals = 1
  /\ hist'[d].deploys > hist[d].deploys =>
       /\ progress[d].phase = "applying"
       /\ progress[d].progress = 60

SentLines(events) ==
  LET IsLog(event) == event.type = "log"
      sent == SelectSeq(events, IsLog)
  IN  [i \in DOMAIN sent |-> sent[i].line]

\* the stream of d has just run one iteration of its loop on the row of d
Polled(d) ==
  /\ stream'[d].iteration > stream[d].iteration
  /\ d \in DOMAIN store

\* a 'complete' or 'error' event is among the events and no log event follows it
EndsAfterLines(events) ==
  \A i \in DOMAIN events :
    events[i].type \in {"complete", "error"} =>
      \A j \in DOMAIN events : events[j].type = "log" => j < i

\* C27: while a log stream is open on a deployment whose task body runs, every log
\* line the task body has committed is sent to the client exactly once and in commit
\* order: after each poll the lines sent are the lines committed so far, and those
\* committed up to the poll that sees the terminal status come before its 'complete'
\* or 'error' event
C27_StreamSendsEachLineOnce ==
  [][\A d \in DeploymentIds :
       Polled(d) =>
         /\ SentLines(stream'[d].events) = SelectSeq(CommittedLines(d), IsLine)
         /\ stream'[d].last_log_length = Len(CommittedLines(d))
         /\ EndsAfterLines(stream'[d].events)]_vars

\* C28: once the task body has committed COMPLETED, no later step of the same run
\* changes status, completed_at or outputs or sets error_message; a failure of the
\* publication of 100/SUCCESS does not turn the COMPLETED row into FAILED
C28_CompletedAbsorbing ==
  [][\A d \in DOMAIN store \cap DOMAIN store' :
       (store[d].status = "COMPLETED" /\ hist'[d].starts = hist[d].starts) =>
         /\ store'[d].status = "COMPLETED"
         /\ store'[d].completed_at = store[d].completed_at
         /\ store'[d].outputs = store[d].outputs
         /\ store'[d].error_message = store[d].error_message]_vars

\* the endpoint is still handling the request of d, or the task of d is in the queue
\* and has not started
AwaitsTask(d) == pc[d] \in {"accepted", "queued"}

\* C29: when the endpoint answers a request with an error, no record of that request
\* is left in the store; a record is PENDING only while the task for its
\* deployment_id is enqueued, so that no PENDING record stays PENDING for ever
C29_NoOrphanPending ==
  \A d \in DeploymentIds :
    /\ pc[d] = "rejected" => d \notin DOMAIN store
    /\ (d \in DOMAIN store /\ store[d].status = "PENDING") => AwaitsTask(d)

\* an ANSI escape sequence of the pattern of strip_ansi_codes starts somewhere in t
HasAnsi(t) == \E i \in 1..Len(t) : AnsiMatchEnd(t, i) # 0

\* a box-drawing character is in t
HasBox(t) == \E i \in 1..Len(t) : t[i] \in BoxChars

\* C30: strip_ansi_codes is idempotent and complete on every text of escape
\* characters, brackets, digits, letters, box-drawing characters, spaces and
\* newlines: applied to its own result it returns that result, and its result holds
\* no ANSI escape sequence and no box-drawing character
C30_StripIdempotentComplete ==
  (arg # NULL /\ "text" \in DOMAIN Val(arg) /\ ret # NULL) =>
    /\ ~HasAnsi(Val(ret)[1])
    /\ ~HasBox(Val(ret)[1])
    /\ Len(Val(ret)) = 2 => Val(ret)[2] = Val(ret)[1]
====
